---- MODULE Spec2Model ----
(***************************************************************************)
(* Model of the multi-agent note-processing pipeline of snapnote-ai        *)
(* (backend/agents): the shared NoteProcessingState, the five agents and   *)
(* the LangGraph routing between them, and of the similarity search of     *)
(* backend/services/vector_store.py that the content agent calls.          *)
(*                                                                         *)
(* Representation.                                                         *)
(*  - A text is a sequence of lines; a line is a string taken from a small *)
(*    vocabulary.  The regular expressions of the rule-based fallbacks are *)
(*    modelled by predicates over that vocabulary.                         *)
(*  - A Python value that comes out of json.loads() and is stored without  *)
(*    validation is a tagged record [t, v]: t is "str" (v = the text),     *)
(*    "list" (v = the items), "none" (JSON null), "num" (a JSON number),   *)
(*    or "missing" (the key is not in the mapping).                        *)
(*  - Confidences and similarities are integers in hundredths.             *)
(***************************************************************************)
EXTENDS Integers, Sequences, FiniteSets, TLC

VARIABLES state, pc, executed, calls, documents, search, services, runs

vars == <<state, pc, executed, calls, documents, search, services, runs>>

(***************************************************************************)
(* Bounds                                                                  *)
(***************************************************************************)
\* longest list in a completion response
MaxItems == 1
\* most documents in a document store of SearchSpec
MaxDocs == 3
\* number of concurrent runs of ConcurrentSpec
MaxRuns == 2
\* longest OCR text, in lines, of ExtractionSpec
MaxLines == 2
\* number of calls of structure_agent on one state in StructuringSpec
MaxCalls == 2

(***************************************************************************)
(* Python values                                                           *)
(***************************************************************************)
PyStr(s) == [t |-> "str", v |-> s]
PyList(l) == [t |-> "list", v |-> l]
PyNone == [t |-> "none", v |-> <<>>]
PyNum == [t |-> "num", v |-> <<>>]
PyMissing == [t |-> "missing", v |-> <<>>]

Range(seq) == {seq[i] : i \in 1..Len(seq)}

\* bool(x): "", [] and None are falsy, a non-zero number is truthy
Truthy(x) == IF x.t \in {"str", "list"} THEN Len(x.v) > 0 ELSE x.t = "num"

\* len(x) raises TypeError unless x is a str or a list
HasLen(x) == x.t \in {"str", "list"}

\* iter(x) raises TypeError for None and for a number
Iterable(x) == x.t \in {"str", "list"}

\* a or b
PyOr(a, b) == IF Truthy(a) THEN a ELSE b

\* mapping.get(key, default): d is the stored value or PyMissing
DictGet(d, default) == IF d.t = "missing" THEN default ELSE d

(***************************************************************************)
(* ProcessingStatus, node names                                            *)
(***************************************************************************)
PENDING == "pending"
PROCESSING == "processing"
COMPLETED == "completed"
FAILED == "failed"

OCR_NODE == "ocr_agent"
STRUCTURE_NODE == "structure_agent"
CONTENT_NODE == "content_agent"
QA_NODE == "qa_agent"
INTEGRATION_NODE == "integration_agent"
END == "__end__"

(***************************************************************************)
(* AgentOutput.  NoOutput stands for a key that is absent from the state.  *)
(***************************************************************************)
NoOutput ==
  [present |-> FALSE, success |-> FALSE, data |-> <<>>, skipped |-> FALSE,
   error |-> "", processing_time |-> 0, agent_name |-> ""]

AgentOutput(success, data, skipped, error, processing_time, agent_name) ==
  [present |-> TRUE, success |-> success, data |-> data, skipped |-> skipped,
   error |-> error, processing_time |-> processing_time,
   agent_name |-> agent_name]

(***************************************************************************)
(* create_initial_state                                                    *)
(***************************************************************************)
\* None as the value of an Optional[str] argument
Unset == "None"

\* Faulty variant: the retrieval flag is set whatever the course_id
create_initial_state_AlwaysRag(image_bytes, course_id, course_name, additional_context, user_id, generate_qa) ==
  [image_bytes |-> image_bytes,
   course_id |-> course_id,
   course_name |-> course_name,
   additional_context |-> additional_context,
   user_id |-> user_id,
   ocr_raw_text |-> <<>>,
   ocr_corrected_text |-> PyStr(<<>>),
   ocr_confidence |-> 0,
   special_contents |-> <<>>,
   ocr_agent_output |-> NoOutput,
   text_blocks |-> <<>>,
   heading_hierarchy |-> PyList(<<>>),
   key_concepts |-> <<>>,
   document_type |-> PyStr(<<"notes">>),
   structure_agent_output |-> NoOutput,
   related_notes |-> <<>>,
   rag_context |-> PyNone,
   enhanced_content |-> PyStr(<<>>),
   cross_references |-> PyList(<<>>),
   content_agent_output |-> NoOutput,
   qa_items |-> <<>>,
   knowledge_cards |-> <<>>,
   key_points |-> PyList(<<>>),
   qa_agent_output |-> NoOutput,
   final_note |-> PyStr(<<>>),
   final_metadata |-> [kind |-> "empty"],
   integration_agent_output |-> NoOutput,
   status |-> PENDING,
   current_agent |-> "",
   errors |-> <<>>,
   processing_times |-> <<>>,
   should_use_rag |-> TRUE,
   should_generate_qa |-> generate_qa]

create_initial_state(image_bytes, course_id, course_name, additional_context, user_id, generate_qa) ==
  [image_bytes |-> image_bytes,
   course_id |-> course_id,
   course_name |-> course_name,
   additional_context |-> additional_context,
   user_id |-> user_id,
   ocr_raw_text |-> <<>>,
   ocr_corrected_text |-> PyStr(<<>>),
   ocr_confidence |-> 0,
   special_contents |-> <<>>,
   ocr_agent_output |-> NoOutput,
   text_blocks |-> <<>>,
   heading_hierarchy |-> PyList(<<>>),
   key_concepts |-> <<>>,
   document_type |-> PyStr(<<"notes">>),
   structure_agent_output |-> NoOutput,
   related_notes |-> <<>>,
   rag_context |-> PyNone,
   enhanced_content |-> PyStr(<<>>),
   cross_references |-> PyList(<<>>),
   content_agent_output |-> NoOutput,
   qa_items |-> <<>>,
   knowledge_cards |-> <<>>,
   key_points |-> PyList(<<>>),
   qa_agent_output |-> NoOutput,
   final_note |-> PyStr(<<>>),
   final_metadata |-> [kind |-> "empty"],
   integration_agent_output |-> NoOutput,
   status |-> PENDING,
   current_agent |-> "",
   errors |-> <<>>,
   processing_times |-> <<>>,
   should_use_rag |-> (course_id # Unset),
   should_generate_qa |-> generate_qa]

\* state["processing_times"][agent_name] = t on an insertion-ordered dict
SetTime(times, agent_name, t) ==
  IF \E i \in 1..Len(times) : times[i][1] = agent_name
  THEN [i \in 1..Len(times) |->
          IF times[i][1] = agent_name THEN <<agent_name, t>> ELSE times[i]]
  ELSE Append(times, <<agent_name, t>>)

(***************************************************************************)
(* Text vocabulary and the patterns of the rule-based fallbacks            *)
(***************************************************************************)
IsBlankLine(line) == line \in {"", " "}

\* len(text.strip()) == 0
IsBlankText(text) == \A i \in 1..Len(text) : IsBlankLine(text[i])

MathMatch(line) == line \in {"$x$"}
CodeMatch(line) == line \in {"def f"}
TableMatch(line) == line \in {"|a|b|"}
BoldMatch(line) == line \in {"**key**"}

RECURSIVE MatchesOf(_, _, _, _)
MatchesOf(text, i, kind, conf) ==
  IF i > Len(text) THEN <<>>
  ELSE LET hit == CASE kind = "formula" -> MathMatch(text[i])
                    [] kind = "code" -> CodeMatch(text[i])
                    [] OTHER -> TableMatch(text[i])
           rest == MatchesOf(text, i + 1, kind, conf)
       IN IF hit
          THEN <<[content_type |-> kind, raw_text |-> text[i],
                  position |-> i - 1, confidence |-> conf]>> \o rest
          ELSE rest

\* Faulty variant: one confidence for the three classes of patterns
extract_special_content_OneConfidence(text) ==
  MatchesOf(text, 1, "formula", 80) \o MatchesOf(text, 1, "code", 80)
    \o MatchesOf(text, 1, "table", 80)

extract_special_content(text) ==
  MatchesOf(text, 1, "formula", 80) \o MatchesOf(text, 1, "code", 70)
    \o MatchesOf(text, 1, "table", 60)

(***************************************************************************)
(* OCR agent                                                               *)
(***************************************************************************)
\* One SpecialContent built from an item of the response's special_contents
SpecialFromItem(item) ==
  [content_type |-> item.type, raw_text |-> item.raw_text,
   position |-> 0, confidence |-> 50]

\* Faulty variant: a response that is JSON but no mapping is passed on as a
\* null text instead of raising into the fallback of ocr_agent
parse_llm_response_NoRaise(resp, raw_ocr_text) ==
  IF resp.kind = "text"
  THEN [raised |-> FALSE, corrected_text |-> PyStr(raw_ocr_text),
        special_contents |-> extract_special_content(raw_ocr_text)]
  ELSE IF resp.kind = "nonmap"
  THEN [raised |-> FALSE, corrected_text |-> PyNone, special_contents |-> <<>>]
  ELSE [raised |-> FALSE,
        corrected_text |-> DictGet(resp.corrected_text, PyStr(raw_ocr_text)),
        special_contents |-> <<>>]

\* parse_llm_response: [raised, corrected_text, special_contents].
\* A response is [kind, fields]: kind "text" is not JSON (JSONDecodeError,
\* caught here), "nonmap" is JSON that is no mapping (.get raises
\* AttributeError, not caught here), "map" is a mapping.
parse_llm_response(resp, raw_ocr_text) ==
  IF resp.kind = "text"
  THEN [raised |-> FALSE, corrected_text |-> PyStr(raw_ocr_text),
        special_contents |-> extract_special_content(raw_ocr_text)]
  ELSE IF resp.kind = "nonmap"
  THEN [raised |-> TRUE, corrected_text |-> PyNone, special_contents |-> <<>>]
  ELSE LET items == DictGet(resp.special_contents, PyList(<<>>))
       IN IF ~Iterable(items)
             \/ \E i \in 1..Len(items.v) : items.v[i].t # "dict"
          THEN [raised |-> TRUE, corrected_text |-> PyNone,
                special_contents |-> <<>>]
          ELSE [raised |-> FALSE,
                corrected_text |->
                  DictGet(resp.corrected_text, PyStr(raw_ocr_text)),
                special_contents |->
                  [i \in 1..Len(items.v) |-> SpecialFromItem(items.v[i])]]

\* Faulty variant: the failure is not added to the error list
OcrFail_NoError(s, msg, t) ==
  [s EXCEPT !.status = FAILED,
            !.ocr_agent_output =
               AgentOutput(FALSE, <<>>, FALSE, "OCR Agent failed: " \o msg,
                           t, OCR_NODE)]

\* except Exception as e: of ocr_agent
OcrFail(s, msg, t) ==
  [s EXCEPT !.errors = Append(@, "OCR Agent failed: " \o msg),
            !.status = FAILED,
            !.ocr_agent_output =
               AgentOutput(FALSE, <<>>, FALSE, "OCR Agent failed: " \o msg,
                           t, OCR_NODE)]

\* ocr_agent(state).  ocr is the outcome of ocr_service.extract_text:
\* [ok, text, confidence]; llm is the outcome of llm.ainvoke: [ok, resp].
ocr_agent(s0, ocr, llm, t) ==
  LET s1 == [s0 EXCEPT !.current_agent = OCR_NODE, !.status = PROCESSING]
  IN IF Len(s1.image_bytes) = 0
     THEN OcrFail(s1, "No image data provided", t)
     ELSE IF ~ocr.ok
     THEN OcrFail(s1, "OCR port error", t)
     ELSE IF Len(ocr.text) = 0 \/ IsBlankText(ocr.text)
     THEN OcrFail(s1, "OCR failed to extract any text from the image", t)
     ELSE
       LET s2 == [s1 EXCEPT !.ocr_raw_text = ocr.text,
                            !.ocr_confidence = ocr.confidence]
           parsed == IF llm.ok THEN parse_llm_response(llm.resp, ocr.text)
                     ELSE [raised |-> TRUE, corrected_text |-> PyNone,
                           special_contents |-> <<>>]
           s3 == IF parsed.raised
                 THEN [s2 EXCEPT !.ocr_corrected_text = PyStr(ocr.text),
                                 !.special_contents =
                                    extract_special_content(ocr.text)]
                 ELSE [s2 EXCEPT !.ocr_corrected_text = parsed.corrected_text,
                                 !.special_contents = parsed.special_contents]
           s4 == [s3 EXCEPT !.processing_times = SetTime(@, OCR_NODE, t)]
       IN IF ~HasLen(s4.ocr_corrected_text)
          THEN OcrFail(s4, "object has no len()", t)
          ELSE [s4 EXCEPT !.ocr_agent_output =
                  AgentOutput(TRUE,
                              <<Len(s4.ocr_corrected_text.v), ocr.confidence,
                                Len(s4.special_contents)>>,
                              FALSE, "", t, OCR_NODE)]

(***************************************************************************)
(* Structure agent                                                         *)
(***************************************************************************)
\* len(line) for the lines of the vocabulary, after line.strip()
StrippedLen(line) ==
  CASE line \in {"", " "} -> 0
    [] line = "a" -> 1
    [] line = "a." -> 2
    [] line \in {"# h", "- i", "$x$", "1 x"} -> 3
    [] line \in {"def f", "|a|b|"} -> 5
    [] OTHER -> 7

MdHeading(line) == line \in {"# h"}
StartsWithBullet(line) == line \in {"- i", "**key**"}
StartsWithDigit(line) == line \in {"1 x"}
EndsWithPunctuation(line) == line \in {"a."}

\* the TextBlock and the heading entry of one non-blank line
BlockOfLine(line) ==
  IF MdHeading(line)
  THEN [content |-> "h", block_type |-> "heading", level |-> 1]
  ELSE IF StartsWithBullet(line) \/ StartsWithDigit(line)
  THEN [content |-> line, block_type |-> "list", level |-> 1]
  ELSE IF StrippedLen(line) < 50 /\ ~EndsWithPunctuation(line)
  THEN [content |-> line, block_type |-> "heading", level |-> 2]
  ELSE [content |-> line, block_type |-> "paragraph", level |-> 0]

RECURSIVE RuleBlocks(_, _, _)
RuleBlocks(text, i, pos) ==
  IF i > Len(text) THEN [text_blocks |-> <<>>, heading_hierarchy |-> <<>>]
  ELSE LET line == text[i]
           rest == RuleBlocks(text, i + 1, pos + StrippedLen(line) + 1)
       IN IF IsBlankLine(line) THEN rest
          ELSE LET b == BlockOfLine(line)
               IN [text_blocks |-> <<b>> \o rest.text_blocks,
                   heading_hierarchy |->
                     IF b.block_type = "heading"
                     THEN <<[text |-> b.content, level |-> b.level,
                             position |-> pos]>> \o rest.heading_hierarchy
                     ELSE rest.heading_hierarchy]

RECURSIVE RuleConcepts(_, _)
RuleConcepts(text, i) ==
  IF i > Len(text) THEN <<>>
  ELSE IF BoldMatch(text[i])
  THEN <<[term |-> "key", definition |-> "", importance |-> 70]>>
         \o RuleConcepts(text, i + 1)
  ELSE RuleConcepts(text, i + 1)

rule_based_structure_analysis(text) ==
  LET r == RuleBlocks(text, 1, 0)
  IN [raised |-> FALSE,
      document_type |-> PyStr(<<"notes">>),
      text_blocks |-> r.text_blocks,
      heading_hierarchy |-> PyList(r.heading_hierarchy),
      key_concepts |-> RuleConcepts(text, 1)]

StructRaised ==
  [raised |-> TRUE, document_type |-> PyNone, text_blocks |-> <<>>,
   heading_hierarchy |-> PyNone, key_concepts |-> <<>>]

AllDicts(items) == \A i \in 1..Len(items.v) : items.v[i].t = "dict"

parse_structure_response(resp, raw_text) ==
  IF resp.kind = "text" THEN rule_based_structure_analysis(raw_text)
  ELSE IF resp.kind = "nonmap" THEN StructRaised
  ELSE LET blocks == DictGet(resp.text_blocks, PyList(<<>>))
           concepts == DictGet(resp.key_concepts, PyList(<<>>))
       IN IF ~Iterable(blocks) \/ ~AllDicts(blocks)
             \/ ~Iterable(concepts) \/ ~AllDicts(concepts)
          THEN StructRaised
          ELSE [raised |-> FALSE,
                document_type |->
                  DictGet(resp.document_type, PyStr(<<"notes">>)),
                text_blocks |->
                  [i \in 1..Len(blocks.v) |->
                     [content |-> blocks.v[i].content,
                      block_type |-> blocks.v[i].block_type,
                      level |-> blocks.v[i].level]],
                heading_hierarchy |->
                  DictGet(resp.heading_hierarchy, PyList(<<>>)),
                key_concepts |->
                  [i \in 1..Len(concepts.v) |->
                     [term |-> concepts.v[i].term,
                      definition |-> concepts.v[i].definition,
                      importance |-> 50]]]

\* Faulty variant: the failure is not added to the error list
StructFail_NoError(s, msg, t) ==
  [s EXCEPT !.structure_agent_output =
               AgentOutput(FALSE, <<>>, FALSE,
                           "Structure Agent failed: " \o msg, t,
                           STRUCTURE_NODE)]

\* Faulty variant: a failure of Structuring marks the run as failed
StructFail_FailsRun(s, msg, t) ==
  [s EXCEPT !.errors = Append(@, "Structure Agent failed: " \o msg),
            !.status = FAILED,
            !.structure_agent_output =
               AgentOutput(FALSE, <<>>, FALSE,
                           "Structure Agent failed: " \o msg, t,
                           STRUCTURE_NODE)]

\* except Exception as e: of structure_agent
StructFail(s, msg, t) ==
  [s EXCEPT !.errors = Append(@, "Structure Agent failed: " \o msg),
            !.structure_agent_output =
               AgentOutput(FALSE, <<>>, FALSE,
                           "Structure Agent failed: " \o msg, t,
                           STRUCTURE_NODE)]

\* Faulty variant: the rule-based lists are added to the lists of the state
structure_agent_Accumulates(s0, llm, t) ==
  LET s1 == [s0 EXCEPT !.current_agent = STRUCTURE_NODE]
  IN IF s1.ocr_agent_output.present /\ ~s1.ocr_agent_output.success
     THEN [s1 EXCEPT !.structure_agent_output =
             AgentOutput(FALSE, <<>>, FALSE,
                         "Structure Agent skipped: OCR Agent failed", 0,
                         STRUCTURE_NODE)]
     ELSE IF ~Truthy(s1.ocr_corrected_text)
     THEN StructFail(s1, "No text available for structure analysis", t)
     ELSE
       LET text == s1.ocr_corrected_text.v
           parsed == IF llm.ok THEN parse_structure_response(llm.resp, text)
                     ELSE StructRaised
           result == IF parsed.raised
                     THEN rule_based_structure_analysis(text) ELSE parsed
           s2 == [s1 EXCEPT !.text_blocks =
                               IF parsed.raised THEN @ \o result.text_blocks
                               ELSE result.text_blocks,
                            !.heading_hierarchy = result.heading_hierarchy,
                            !.key_concepts = result.key_concepts,
                            !.document_type = result.document_type,
                            !.processing_times =
                               SetTime(@, STRUCTURE_NODE, t)]
       IN IF ~HasLen(result.heading_hierarchy)
          THEN StructFail(s2, "object has no len()", t)
          ELSE [s2 EXCEPT !.structure_agent_output =
                  AgentOutput(TRUE,
                              <<Len(result.text_blocks),
                                Len(result.heading_hierarchy.v),
                                Len(result.key_concepts)>>,
                              FALSE, "", t, STRUCTURE_NODE)]

structure_agent(s0, llm, t) ==
  LET s1 == [s0 EXCEPT !.current_agent = STRUCTURE_NODE]
  IN IF s1.ocr_agent_output.present /\ ~s1.ocr_agent_output.success
     THEN [s1 EXCEPT !.structure_agent_output =
             AgentOutput(FALSE, <<>>, FALSE,
                         "Structure Agent skipped: OCR Agent failed", 0,
                         STRUCTURE_NODE)]
     ELSE IF ~Truthy(s1.ocr_corrected_text)
     THEN StructFail(s1, "No text available for structure analysis", t)
     ELSE
       LET text == s1.ocr_corrected_text.v
           parsed == IF llm.ok THEN parse_structure_response(llm.resp, text)
                     ELSE StructRaised
           result == IF parsed.raised
                     THEN rule_based_structure_analysis(text) ELSE parsed
           s2 == [s1 EXCEPT !.text_blocks = result.text_blocks,
                            !.heading_hierarchy = result.heading_hierarchy,
                            !.key_concepts = result.key_concepts,
                            !.document_type = result.document_type,
                            !.processing_times =
                               SetTime(@, STRUCTURE_NODE, t)]
       IN IF ~HasLen(result.heading_hierarchy)
          THEN StructFail(s2, "object has no len()", t)
          ELSE [s2 EXCEPT !.structure_agent_output =
                  AgentOutput(TRUE,
                              <<Len(result.text_blocks),
                                Len(result.heading_hierarchy.v),
                                Len(result.key_concepts)>>,
                              FALSE, "", t, STRUCTURE_NODE)]

(***************************************************************************)
(* Vector store (services/vector_store.py).  An embedding is a vector of   *)
(* four integers of integral norm, or <<>> for a NULL embedding; a         *)
(* similarity is a cosine in hundredths.  A db is [ok, documents]: ok is   *)
(* FALSE when the session raises on the query.                             *)
(***************************************************************************)
NoCourse == "None"
ValidCourse == "c0ffee00-0000-4000-8000-000000000001"
OtherCourse == "c0ffee00-0000-4000-8000-000000000002"
InvalidCourse == "not-a-uuid"

\* Optional[UUID] = None for a document id; document ids are 1, 2, ...
NoId == 0

Dot(a, b) == a[1] * b[1] + a[2] * b[2] + a[3] * b[3] + a[4] * b[4]

Norm(v) == CHOOSE n \in 0..Dot(v, v) : n * n = Dot(v, v)

\* Document.embedding.cosine_distance(query_embedding), in hundredths
cosine_distance(embedding, query_embedding) ==
  100 - (100 * Dot(embedding, query_embedding))
          \div (Norm(embedding) * Norm(query_embedding))

\* Faulty variant: the label is the distance, not 1 - distance
Similarity_Distance(doc, query_embedding) ==
  cosine_distance(doc.embedding, query_embedding)

\* the label 'similarity' of the query: 1 - cosine_distance
Similarity(doc, query_embedding) ==
  100 - cosine_distance(doc.embedding, query_embedding)

\* Faulty variant: the query does not filter by course
Eligible_AnyCourse(docs, course_id, exclude_document_id) ==
  {d \in docs :
     /\ d.status = "active"
     /\ d.embedding # <<>>
     /\ exclude_document_id # NoId => d.id # exclude_document_id}

\* Faulty variant: the query does not filter out the excluded document
Eligible_NoExclude(docs, course_id, exclude_document_id) ==
  {d \in docs :
     /\ d.course_id = course_id
     /\ d.status = "active"
     /\ d.embedding # <<>>}

\* the rows the filters of the query keep
Eligible(docs, course_id, exclude_document_id) ==
  {d \in docs :
     /\ d.course_id = course_id
     /\ d.status = "active"
     /\ d.embedding # <<>>
     /\ exclude_document_id # NoId => d.id # exclude_document_id}

\* order_by(cosine_distance): every order of the rows by ascending distance;
\* rows at the same distance come in an order the database chooses
RECURSIVE OrderByDistance(_, _)
OrderByDistance(rows, query_embedding) ==
  IF rows = {} THEN {<<>>}
  ELSE UNION
         {{<<d>> \o rest :
             rest \in OrderByDistance(rows \ {d}, query_embedding)} :
            d \in {x \in rows :
                     \A y \in rows :
                        cosine_distance(x.embedding, query_embedding)
                          <= cosine_distance(y.embedding, query_embedding)}}

\* Faulty variant: the limit keeps the last top_k rows
Limit_Last(rows, top_k) ==
  SubSeq(rows, IF top_k < Len(rows) THEN Len(rows) - top_k + 1 ELSE 1,
         Len(rows))

\* .limit(top_k)
Limit(rows, top_k) == SubSeq(rows, 1, IF top_k < Len(rows) THEN top_k
                                        ELSE Len(rows))

\* [(doc, similarity) for doc, similarity in results
\*    if similarity >= similarity_threshold]
RECURSIVE AboveThreshold(_, _, _)
AboveThreshold(rows, query_embedding, similarity_threshold) ==
  IF Len(rows) = 0 THEN <<>>
  ELSE LET sim == Similarity(rows[1], query_embedding)
           rest == AboveThreshold(Tail(rows), query_embedding,
                                  similarity_threshold)
       IN IF sim >= similarity_threshold
          THEN <<[doc |-> rows[1], similarity |-> sim]>> \o rest
          ELSE rest

\* find_similar_documents: the set of lists of (doc, similarity) the call
\* can return; more than one only when rows tie in distance
find_similar_documents(db, query_embedding, course_id, top_k, exclude_document_id, similarity_threshold) ==
  IF ~db.ok THEN {<<>>}
  ELSE {AboveThreshold(Limit(results, top_k), query_embedding,
                       similarity_threshold) :
          results \in OrderByDistance(
                        Eligible(db.documents, course_id,
                                 exclude_document_id),
                        query_embedding)}

\* similarity_threshold of find_related_notes
RelatedThreshold == 30

\* find_related_notes: the set of lists of {id, title, similarity} the call
\* can return
find_related_notes(db, document_id, top_k) ==
  IF ~db.ok THEN {<<>>}
  ELSE LET sources == {d \in db.documents :
                         d.id = document_id /\ d.status = "active"}
       IN IF sources = {} THEN {<<>>}
          ELSE LET source_doc == CHOOSE d \in sources : TRUE
               IN IF source_doc.embedding = <<>> THEN {<<>>}
                  ELSE {[i \in 1..Len(similar_docs) |->
                           [id |-> similar_docs[i].doc.id,
                            title |-> similar_docs[i].doc.title,
                            similarity |-> similar_docs[i].similarity]] :
                          similar_docs \in
                            find_similar_documents(
                              db, source_doc.embedding, source_doc.course_id,
                              top_k, document_id, RelatedThreshold)}

(***************************************************************************)
(* Content agent                                                           *)
(***************************************************************************)
\* UUID(course_id) raises ValueError unless the string is a UUID
IsUuid(course_id) == course_id \in {ValidCourse, OtherCourse}

\* top_k and similarity_threshold of the call in content_agent
RagTopK == 3
RagThreshold == 40

\* the RelatedNote built from one (doc, similarity) pair
RelatedNote(pair) ==
  [document_id |-> pair.doc.id, title |-> pair.doc.title,
   excerpt |-> pair.doc.formatted_note, similarity |-> pair.similarity]

format_rag_context(related_notes) ==
  [i \in 1..Len(related_notes) |->
     "### " \o ToString(i) \o " " \o related_notes[i].title \o " "
       \o ToString(related_notes[i].similarity) \o "%"]

\* Faulty variant: the handler replaces the error list by its own message
ContentFail_ResetErrors(s, msg, t) ==
  [s EXCEPT !.errors = <<"Content Agent failed: " \o msg>>,
            !.enhanced_content = s.ocr_corrected_text,
            !.content_agent_output =
               AgentOutput(FALSE, <<>>, FALSE,
                           "Content Agent failed: " \o msg, t, CONTENT_NODE)]

\* except Exception as e: of content_agent
ContentFail(s, msg, t) ==
  [s EXCEPT !.errors = Append(@, "Content Agent failed: " \o msg),
            !.enhanced_content = s.ocr_corrected_text,
            !.content_agent_output =
               AgentOutput(FALSE, <<>>, FALSE,
                           "Content Agent failed: " \o msg, t, CONTENT_NODE)]

\* Step 1 of content_agent: rag is the outcome of create_embedding followed
\* by find_similar_documents, [ok, docs]
ContentRetrieve(s, rag) ==
  LET use == s.should_use_rag /\ s.course_id # NoCourse
  IN IF use /\ rag.ok /\ IsUuid(s.course_id)
     THEN LET related == [i \in 1..Len(rag.docs) |-> RelatedNote(rag.docs[i])]
          IN [s EXCEPT !.related_notes = related,
                       !.rag_context = PyStr(format_rag_context(related))]
     ELSE s

\* Faulty variant: the completion port is called with nothing to work from
ContentNeedsLlm_Always(s) == TRUE

\* whether Step 2 of content_agent calls the completion port
ContentNeedsLlm(s) == Truthy(s.rag_context) \/ Len(s.key_concepts) > 0

\* Step 2 of content_agent
ContentEnhance(s, llm) ==
  LET text == s.ocr_corrected_text
  IN IF ~ContentNeedsLlm(s) \/ ~llm.ok \/ llm.resp.kind # "map"
     THEN [s EXCEPT !.enhanced_content = text]
     ELSE LET refs == DictGet(llm.resp.cross_references, PyList(<<>>))
              s1 == [s EXCEPT !.enhanced_content =
                                 DictGet(llm.resp.enhanced_content, text),
                              !.cross_references = refs]
          IN IF HasLen(refs) THEN s1
             ELSE [s1 EXCEPT !.enhanced_content = text]

content_agent(s0, rag, llm, t) ==
  LET s1 == [s0 EXCEPT !.current_agent = CONTENT_NODE]
  IN IF ~Truthy(s1.ocr_corrected_text)
     THEN ContentFail(s1, "No text available for content enhancement", t)
     ELSE
       LET s2 == [s1 EXCEPT !.related_notes = <<>>, !.rag_context = PyNone,
                            !.cross_references = PyList(<<>>)]
           s3 == ContentEnhance(ContentRetrieve(s2, rag), llm)
           s4 == [s3 EXCEPT !.processing_times = SetTime(@, CONTENT_NODE, t)]
           use == s4.should_use_rag /\ s4.course_id # NoCourse
       IN IF ~HasLen(s4.cross_references)
          THEN ContentFail(s4, "object has no len()", t)
          ELSE [s4 EXCEPT !.content_agent_output =
                  AgentOutput(TRUE,
                              <<Len(s4.related_notes),
                                Len(s4.cross_references.v),
                                IF use /\ Len(s4.related_notes) > 0
                                THEN 1 ELSE 0>>,
                              FALSE, "", t, CONTENT_NODE)]

(***************************************************************************)
(* QA agent                                                                *)
(***************************************************************************)
QaRaised ==
  [raised |-> TRUE, qa_items |-> <<>>, knowledge_cards |-> <<>>,
   key_points |-> PyNone]

parse_qa_response(resp) ==
  IF resp.kind = "text"
  THEN [raised |-> FALSE, qa_items |-> <<>>, knowledge_cards |-> <<>>,
        key_points |-> PyList(<<>>)]
  ELSE IF resp.kind = "nonmap" THEN QaRaised
  ELSE LET items == DictGet(resp.qa_items, PyList(<<>>))
           cards == DictGet(resp.knowledge_cards, PyList(<<>>))
       IN IF ~Iterable(items) \/ ~AllDicts(items)
             \/ ~Iterable(cards) \/ ~AllDicts(cards)
          THEN QaRaised
          ELSE [raised |-> FALSE,
                qa_items |->
                  [i \in 1..Len(items.v) |->
                     [question |-> DictGet(items.v[i].question, PyStr(<<>>)),
                      answer |-> DictGet(items.v[i].answer, PyStr(<<>>)),
                      difficulty |->
                        DictGet(items.v[i].difficulty, PyStr(<<"medium">>))]],
                knowledge_cards |->
                  [i \in 1..Len(cards.v) |->
                     [front |-> DictGet(cards.v[i].front, PyStr(<<>>)),
                      back |-> DictGet(cards.v[i].back, PyStr(<<>>))]],
                key_points |-> DictGet(resp.key_points, PyList(<<>>))]

\* Faulty variant: the failure is not added to the error list
QaFail_NoError(s, msg, t) ==
  [s EXCEPT !.qa_items = <<>>,
            !.knowledge_cards = <<>>,
            !.key_points = PyList(<<>>),
            !.qa_agent_output =
               AgentOutput(FALSE, <<>>, FALSE, "QA Agent failed: " \o msg, t,
                           QA_NODE)]

\* Faulty variant: the failure path keeps the lists the stage had stored
QaFail_KeepLists(s, msg, t) ==
  [s EXCEPT !.errors = Append(@, "QA Agent failed: " \o msg),
            !.qa_agent_output =
               AgentOutput(FALSE, <<>>, FALSE, "QA Agent failed: " \o msg, t,
                           QA_NODE)]

\* Faulty variant: the handler also empties the references of Enrichment
QaFail_ClearsReferences(s, msg, t) ==
  [s EXCEPT !.errors = Append(@, "QA Agent failed: " \o msg),
            !.cross_references = PyList(<<>>),
            !.qa_items = <<>>,
            !.knowledge_cards = <<>>,
            !.key_points = PyList(<<>>),
            !.qa_agent_output =
               AgentOutput(FALSE, <<>>, FALSE, "QA Agent failed: " \o msg, t,
                           QA_NODE)]

\* except Exception as e: of qa_agent
QaFail(s, msg, t) ==
  [s EXCEPT !.errors = Append(@, "QA Agent failed: " \o msg),
            !.qa_items = <<>>,
            !.knowledge_cards = <<>>,
            !.key_points = PyList(<<>>),
            !.qa_agent_output =
               AgentOutput(FALSE, <<>>, FALSE, "QA Agent failed: " \o msg, t,
                           QA_NODE)]

qa_agent(s0, llm, t) ==
  LET s1 == [s0 EXCEPT !.current_agent = QA_NODE]
      content == PyOr(s1.enhanced_content, s1.ocr_corrected_text)
  IN IF ~s1.should_generate_qa
     THEN [s1 EXCEPT !.qa_items = <<>>,
                     !.knowledge_cards = <<>>,
                     !.key_points = PyList(<<>>),
                     !.qa_agent_output =
                        AgentOutput(TRUE, <<>>, TRUE, "", 0, QA_NODE)]
     ELSE IF ~Truthy(content)
     THEN QaFail(s1, "No content available for Q&A generation", t)
     ELSE IF content.t = "num"
     THEN QaFail(s1, "object is not subscriptable", t)
     ELSE IF ~llm.ok
     THEN QaFail(s1, "completion error", t)
     ELSE
       LET result == parse_qa_response(llm.resp)
       IN IF result.raised
          THEN QaFail(s1, "malformed response", t)
          ELSE
            LET s2 == [s1 EXCEPT !.qa_items = result.qa_items,
                                 !.knowledge_cards = result.knowledge_cards,
                                 !.key_points = result.key_points,
                                 !.processing_times = SetTime(@, QA_NODE, t)]
            IN IF ~HasLen(result.key_points)
               THEN QaFail(s2, "object has no len()", t)
               ELSE [s2 EXCEPT !.qa_agent_output =
                       AgentOutput(TRUE,
                                   <<Len(result.qa_items),
                                     Len(result.knowledge_cards),
                                     Len(result.key_points.v)>>,
                                   FALSE, "", t, QA_NODE)]

(***************************************************************************)
(* Integration agent                                                       *)
(***************************************************************************)
RECURSIVE Flatten(_)
Flatten(chars) ==
  IF Len(chars) = 0 THEN "" ELSE chars[1] \o Flatten(Tail(chars))

\* f"{x}"
PyFormat(x) ==
  CASE x.t = "str" -> Flatten(x.v)
    [] x.t = "none" -> "None"
    [] x.t = "num" -> "5"
    [] OTHER -> "[]"

\* hash(x) raises TypeError for a list
Hashable(x) == x.t # "list"

Min(a, b) == IF a < b THEN a ELSE b

RECURSIVE SumTimes(_)
SumTimes(times) ==
  IF Len(times) = 0 THEN 0 ELSE times[1][2] + SumTimes(Tail(times))

DifficultyEmoji(d) ==
  IF d.t = "str" /\ d.v = <<"easy">> THEN "(G)"
  ELSE IF d.t = "str" /\ d.v = <<"hard">> THEN "(R)"
  ELSE "(Y)"

RECURSIVE KeyPointLines(_, _)
KeyPointLines(points, i) ==
  IF i > Len(points) THEN <<>>
  ELSE <<ToString(i) \o ". " \o points[i]>> \o KeyPointLines(points, i + 1)

RECURSIVE QuestionLines(_, _)
QuestionLines(items, i) ==
  IF i > Len(items) THEN <<>>
  ELSE <<"### Q" \o ToString(i) \o " " \o DifficultyEmoji(items[i].difficulty),
         "**Q**: " \o PyFormat(items[i].question), "",
         "<details>", "<summary>answer</summary>", "",
         PyFormat(items[i].answer), "</details>", "">>
         \o QuestionLines(items, i + 1)

\* format_qa_section: [raised, lines]; "" is the result with no lines
format_qa_section(qa_items, key_points) ==
  IF \E i \in 1..Len(qa_items) : ~Hashable(qa_items[i].difficulty)
  THEN [raised |-> TRUE, lines |-> <<>>]
  ELSE [raised |-> FALSE,
        lines |->
          (IF Truthy(key_points)
           THEN <<"## key points", "">> \o KeyPointLines(key_points.v, 1)
                  \o <<"">>
           ELSE <<>>)
          \o (IF Len(qa_items) > 0
              THEN <<"## review questions", "">> \o QuestionLines(qa_items, 1)
              ELSE <<>>)]

\* text.replace("|", "\\|") on a sequence of characters
RECURSIVE EscapePipes(_)
EscapePipes(chars) ==
  IF Len(chars) = 0 THEN <<>>
  ELSE (IF chars[1] = "|" THEN <<"\\", "|">> ELSE <<chars[1]>>)
         \o EscapePipes(Tail(chars))

RECURSIVE CardRows(_, _, _)
CardRows(cards, i, n) ==
  IF i > n THEN <<>>
  ELSE <<"| " \o Flatten(EscapePipes(cards[i].front.v)) \o " | "
           \o Flatten(EscapePipes(cards[i].back.v)) \o " |">>
         \o CardRows(cards, i + 1, n)

MaxCards == 10

\* format_knowledge_cards: [raised, lines]
format_knowledge_cards(cards) ==
  LET n == Min(Len(cards), MaxCards)
  IN IF \E i \in 1..n : cards[i].front.t # "str" \/ cards[i].back.t # "str"
     THEN [raised |-> TRUE, lines |-> <<>>]
     ELSE [raised |-> FALSE,
           lines |-> IF Len(cards) = 0 THEN <<>>
                     ELSE <<"## cards", "", "| front | back |",
                            "|------|------|">> \o CardRows(cards, 1, n)]

\* build_integration_prompt raises TypeError when it iterates over
\* cross_references that are truthy and not iterable
PromptRaises(s) ==
  Truthy(s.cross_references) /\ ~Iterable(s.cross_references)

\* Faulty variant: the failure path leaves the status untouched
IntegrationFail_KeepStatus(s, msg, t) ==
  [s EXCEPT !.final_note = PyOr(s.enhanced_content, s.ocr_corrected_text),
            !.final_metadata =
               [kind |-> "error",
                error |-> "Integration Agent failed: " \o msg],
            !.errors = Append(@, "Integration Agent failed: " \o msg),
            !.integration_agent_output =
               AgentOutput(FALSE, <<>>, FALSE,
                           "Integration Agent failed: " \o msg, t,
                           INTEGRATION_NODE)]

\* Faulty variant: the failure path stores no fallback document
IntegrationFail_NoFallback(s, msg, t) ==
  [s EXCEPT !.final_metadata =
               [kind |-> "error",
                error |-> "Integration Agent failed: " \o msg],
            !.errors = Append(@, "Integration Agent failed: " \o msg),
            !.status = FAILED,
            !.integration_agent_output =
               AgentOutput(FALSE, <<>>, FALSE,
                           "Integration Agent failed: " \o msg, t,
                           INTEGRATION_NODE)]

\* except Exception as e: of integration_agent
IntegrationFail(s, msg, t) ==
  [s EXCEPT !.final_note = PyOr(s.enhanced_content, s.ocr_corrected_text),
            !.final_metadata =
               [kind |-> "error",
                error |-> "Integration Agent failed: " \o msg],
            !.errors = Append(@, "Integration Agent failed: " \o msg),
            !.status = FAILED,
            !.integration_agent_output =
               AgentOutput(FALSE, <<>>, FALSE,
                           "Integration Agent failed: " \o msg, t,
                           INTEGRATION_NODE)]

IntegrationMetadata(s) ==
  [kind |-> "metadata",
   processing_time_total |-> SumTimes(s.processing_times),
   processing_times |-> s.processing_times,
   ocr_confidence |-> s.ocr_confidence,
   document_type |-> s.document_type,
   related_notes_count |-> Len(s.related_notes),
   key_concepts_count |-> Len(s.key_concepts),
   qa_items_count |-> Len(s.qa_items),
   knowledge_cards_count |-> Len(s.knowledge_cards),
   special_contents_count |-> Len(s.special_contents),
   errors |-> s.errors,
   agents_run |-> [i \in 1..Len(s.processing_times) |->
                     s.processing_times[i][1]],
   used_rag |-> Len(s.related_notes) > 0,
   generated_qa |-> Len(s.qa_items) > 0]

\* llm is the outcome of llm.ainvoke: [ok, text]
integration_agent(s0, llm, t) ==
  LET s1 == [s0 EXCEPT !.current_agent = INTEGRATION_NODE]
      qa_section == format_qa_section(s1.qa_items, s1.key_points)
      cards_section == format_knowledge_cards(s1.knowledge_cards)
  IN IF PromptRaises(s1)
     THEN IntegrationFail(s1, "object is not iterable", t)
     ELSE IF ~llm.ok
     THEN IntegrationFail(s1, "completion error", t)
     ELSE IF qa_section.raised
     THEN IntegrationFail(s1, "unhashable type", t)
     ELSE IF cards_section.raised
     THEN IntegrationFail(s1, "object has no attribute 'replace'", t)
     ELSE
       LET final_note ==
             llm.text
               \o (IF Len(qa_section.lines) > 0
                   THEN <<"", "---", "">> \o qa_section.lines ELSE <<>>)
               \o (IF Len(cards_section.lines) > 0
                   THEN <<"", "---", "">> \o cards_section.lines ELSE <<>>)
           s2 == [s1 EXCEPT !.final_note = PyStr(final_note)]
           s3 == [s2 EXCEPT !.final_metadata = IntegrationMetadata(s2),
                            !.status = COMPLETED,
                            !.processing_times =
                               SetTime(@, INTEGRATION_NODE, t)]
       IN [s3 EXCEPT !.integration_agent_output =
             AgentOutput(TRUE,
                         <<Len(final_note),
                           IF Len(qa_section.lines) > 0 THEN 1 ELSE 0,
                           IF Len(cards_section.lines) > 0 THEN 1 ELSE 0>>,
                         FALSE, "", t, INTEGRATION_NODE)]

(***************************************************************************)
(* Outcomes of the external ports                                          *)
(***************************************************************************)
\* time.time() - start_time
ElapsedTimes == {1}

Images == {<<>>, <<"jpeg">>}
Courses == {NoCourse, ValidCourse, InvalidCourse}

OcrTexts == {<<>>, <<" ">>, <<"a.">>, <<"**key**", "$x$">>}

OcrOutcomes ==
  {[ok |-> FALSE, text |-> <<>>, confidence |-> 0]}
    \cup {[ok |-> TRUE, text |-> x, confidence |-> 95] : x \in OcrTexts}

\* n copies of item
Repeat(item, n) == [i \in 1..n |-> item]

\* the list lengths of the responses: empty and longest
ListLengths == {0, MaxItems}

\* the lists of item of these lengths
ListsOf(item) == {PyList(Repeat(item, n)) : n \in ListLengths}

LlmRaise == [ok |-> FALSE, resp |-> [kind |-> "none"]]
LlmOk(resps) == {[ok |-> TRUE, resp |-> r] : r \in resps}
Unparsable == {[kind |-> "text"], [kind |-> "nonmap"]}

SpecialItem == [t |-> "dict", type |-> "formula", raw_text |-> "$x$"]
SpecialNoDict == [t |-> "num", type |-> "", raw_text |-> ""]

OcrResponses ==
  Unparsable
    \cup {[kind |-> "map", corrected_text |-> PyMissing,
           special_contents |-> PyMissing]}
    \cup {[kind |-> "map", corrected_text |-> PyStr(<<"c.">>),
           special_contents |-> l] : l \in ListsOf(SpecialItem)}
    \cup {[kind |-> "map", corrected_text |-> c,
           special_contents |-> PyMissing] : c \in {PyStr(<<>>), PyNone}}
    \cup {[kind |-> "map", corrected_text |-> PyStr(<<"c.">>),
           special_contents |-> l] :
            l \in {PyNone, PyList(<<SpecialNoDict>>)}}

BlockItem ==
  [t |-> "dict", content |-> "c.", block_type |-> "paragraph", level |-> 0]
BlockNoDict == [t |-> "num", content |-> "", block_type |-> "", level |-> 0]
ConceptItem == [t |-> "dict", term |-> "key", definition |-> "def"]
ConceptNoDict == [t |-> "num", term |-> "", definition |-> ""]
HeadingItem == [text |-> "h", level |-> 1, position |-> 0]

StructMap(d, b, h, k) ==
  [kind |-> "map", document_type |-> d, text_blocks |-> b,
   heading_hierarchy |-> h, key_concepts |-> k]

StructResponses ==
  Unparsable
    \cup {StructMap(PyMissing, PyMissing, PyMissing, PyMissing)}
    \cup {StructMap(PyStr(<<"lecture">>), PyList(Repeat(BlockItem, n)),
                     PyList(Repeat(HeadingItem, n)),
                     PyList(Repeat(ConceptItem, n))) : n \in ListLengths}
    \cup {StructMap(d, PyMissing, PyMissing, PyMissing) :
            d \in {PyStr(<<"essay">>), PyNone}}
    \cup {StructMap(PyMissing, PyMissing, PyNone, PyMissing),
          StructMap(PyMissing, PyNone, PyMissing, PyMissing),
          StructMap(PyMissing, PyMissing, PyMissing,
                    PyList(<<ConceptNoDict>>))}

RefItem == [t |-> "dict", concept |-> "key", reference_title |-> "old"]
RefNoDict == [t |-> "num", concept |-> "", reference_title |-> ""]

ContentMap(e, r) ==
  [kind |-> "map", enhanced_content |-> e, cross_references |-> r]

ContentResponses ==
  Unparsable
    \cup {ContentMap(PyMissing, PyMissing)}
    \cup {ContentMap(PyStr(<<"e.">>), r) : r \in ListsOf(RefItem)}
    \cup {ContentMap(e, PyMissing) : e \in {PyStr(<<>>), PyNone, PyNum}}
    \cup {ContentMap(PyStr(<<"e.">>), r) :
            r \in {PyNone, PyNum, PyList(<<RefNoDict>>)}}

QaItemOf(d) ==
  [t |-> "dict", question |-> PyStr(<<"q">>), answer |-> PyStr(<<"a">>),
   difficulty |-> d]
QaNoDict ==
  [t |-> "num", question |-> PyNone, answer |-> PyNone, difficulty |-> PyNone]
CardOf(f, b) == [t |-> "dict", front |-> f, back |-> b]
CardNoDict == [t |-> "num", front |-> PyNone, back |-> PyNone]

QaMap(q, c, k) ==
  [kind |-> "map", qa_items |-> q, knowledge_cards |-> c, key_points |-> k]

QaResponses ==
  Unparsable
    \cup {QaMap(PyMissing, PyMissing, PyMissing)}
    \cup {QaMap(PyList(Repeat(QaItemOf(PyStr(<<"easy">>)), n)), c,
                 PyList(Repeat("p", n))) :
            n \in ListLengths,
            c \in ListsOf(CardOf(PyStr(<<"a", "|", "b">>), PyStr(<<"b">>)))}
    \cup {QaMap(q, PyMissing, PyMissing) :
            q \in {PyNone, PyList(<<QaNoDict>>),
                   PyList(<<QaItemOf(PyMissing)>>),
                   PyList(<<QaItemOf(PyNone)>>),
                   PyList(<<QaItemOf(PyList(<<>>))>>)}}
    \cup {QaMap(PyMissing, c, PyMissing) :
            c \in {PyNone, PyList(<<CardNoDict>>),
                   PyList(<<CardOf(PyMissing, PyMissing)>>),
                   PyList(<<CardOf(PyNone, PyStr(<<"b">>))>>),
                   PyList(<<CardOf(PyStr(<<"f">>), PyNum)>>)}}
    \cup {QaMap(PyMissing, PyMissing, PyNone)}

IntegrationOutcomes ==
  {[ok |-> FALSE, text |-> <<>>], [ok |-> TRUE, text |-> <<"# note">>]}

\* embeddings of norm 10 whose cosine with Q1 is 1.0, 0.9, ..., 0.1
E100 == <<10, 0, 0, 0>>
E90 == <<9, 3, 3, 1>>
E60 == <<6, 8, 0, 0>>
E50 == <<5, 5, 5, 5>>
E30 == <<3, 9, 3, 1>>
E10 == <<1, 9, 3, 3>>

\* query embeddings
Q1 == <<1, 0, 0, 0>>
Q4 == <<0, 0, 0, 1>>
Queries == {Q1, Q4}

\* a row of the documents table
Document(id, course_id, status, embedding) ==
  [id |-> id, course_id |-> course_id, status |-> status,
   embedding |-> embedding, title |-> "t" \o ToString(id),
   formatted_note |-> "x"]

\* the document store of the pipeline runs: five active documents of the
\* course with similarities 0.9, 0.6, 0.5, 0.3, 0.1 to Q1, a closer
\* document of another course, a closer one in the trash and one that has
\* no embedding
PipelineStore ==
  {Document(1, ValidCourse, "active", E90),
   Document(2, ValidCourse, "active", E60),
   Document(3, ValidCourse, "active", E50),
   Document(4, ValidCourse, "active", E30),
   Document(5, ValidCourse, "active", E10),
   Document(6, OtherCourse, "active", E100),
   Document(7, ValidCourse, "trash", E100),
   Document(8, ValidCourse, "active", <<>>)}

\* Faulty variant: the store is queried without a similarity floor
RagOutcomes_NoFloor(course_id, rows) ==
  {[ok |-> FALSE, embedding |-> <<>>, db_ok |-> TRUE, docs |-> <<>>],
   [ok |-> TRUE, embedding |-> Q1, db_ok |-> FALSE, docs |-> <<>>]}
    \cup
  UNION
    {{[ok |-> TRUE, embedding |-> q, db_ok |-> TRUE, docs |-> r] :
        r \in IF IsUuid(course_id)
               THEN find_similar_documents(
                      [ok |-> TRUE, documents |-> rows], q, course_id,
                      RagTopK, NoId, 0)
               ELSE {<<>>}} :
       q \in Queries}

\* the outcomes of create_embedding and of the store query for a run on
\* course_id: [ok, embedding, db_ok, docs]; ok is FALSE when
\* create_embedding raises, db_ok is FALSE when the store query raises
\* inside find_similar_documents, docs is what find_similar_documents returns
RagOutcomes(course_id, rows) ==
  {[ok |-> FALSE, embedding |-> <<>>, db_ok |-> TRUE, docs |-> <<>>],
   [ok |-> TRUE, embedding |-> Q1, db_ok |-> FALSE, docs |-> <<>>]}
    \cup
  UNION
    {{[ok |-> TRUE, embedding |-> q, db_ok |-> TRUE, docs |-> r] :
        r \in IF IsUuid(course_id)
               THEN find_similar_documents(
                      [ok |-> TRUE, documents |-> rows], q, course_id,
                      RagTopK, NoId, RagThreshold)
               ELSE {<<>>}} :
       q \in Queries}

(***************************************************************************)
(* Record of the port calls of a run (history variable calls)              *)
(***************************************************************************)
Call(port, stage, outcome) ==
  [port |-> port, stage |-> stage, outcome |-> outcome]

\* A completion response has the documented shape when it is a single
\* mapping whose present fields have the documented types
TextOrMissing(x) == x.t \in {"str", "missing"}
DictsOrMissing(x) ==
  x.t = "missing" \/ (x.t = "list" /\ AllDicts(x))

ShapeOk(stage, resp) ==
  /\ resp.kind = "map"
  /\ CASE stage = OCR_NODE ->
            /\ TextOrMissing(resp.corrected_text)
            /\ DictsOrMissing(resp.special_contents)
       [] stage = STRUCTURE_NODE ->
            /\ TextOrMissing(resp.document_type)
            /\ DictsOrMissing(resp.text_blocks)
            /\ resp.heading_hierarchy.t \in {"list", "missing"}
            /\ DictsOrMissing(resp.key_concepts)
       [] stage = CONTENT_NODE ->
            /\ TextOrMissing(resp.enhanced_content)
            /\ DictsOrMissing(resp.cross_references)
       [] OTHER ->
            /\ DictsOrMissing(resp.qa_items)
            /\ resp.qa_items.t = "list" =>
                 \A i \in 1..Len(resp.qa_items.v) :
                    /\ TextOrMissing(resp.qa_items.v[i].question)
                    /\ TextOrMissing(resp.qa_items.v[i].answer)
                    /\ TextOrMissing(resp.qa_items.v[i].difficulty)
            /\ DictsOrMissing(resp.knowledge_cards)
            /\ resp.knowledge_cards.t = "list" =>
                 \A i \in 1..Len(resp.knowledge_cards.v) :
                    /\ TextOrMissing(resp.knowledge_cards.v[i].front)
                    /\ TextOrMissing(resp.knowledge_cards.v[i].back)
            /\ resp.key_points.t \in {"list", "missing"}

LlmCall(stage, llm) ==
  Call("completion", stage,
       IF ~llm.ok THEN "raised"
       ELSE IF llm.resp.kind # "map" THEN "notmapping"
       ELSE IF ShapeOk(stage, llm.resp) THEN "wellformed" ELSE "malformed")

\* the port calls ocr_agent makes
OcrCalls(s, ocr, llm) ==
  IF Len(s.image_bytes) = 0 THEN <<>>
  ELSE IF ~ocr.ok THEN <<Call("ocr", OCR_NODE, "raised")>>
  ELSE IF Len(ocr.text) = 0 THEN <<Call("ocr", OCR_NODE, "empty")>>
  ELSE IF IsBlankText(ocr.text) THEN <<Call("ocr", OCR_NODE, "blank")>>
  ELSE <<Call("ocr", OCR_NODE, "ok"), LlmCall(OCR_NODE, llm)>>

\* the port calls structure_agent makes
\* Faulty variant: the completion port is called whatever Extraction did
StructCalls_Always(s, llm) == <<LlmCall(STRUCTURE_NODE, llm)>>

StructCalls(s, llm) ==
  IF (s.ocr_agent_output.present /\ ~s.ocr_agent_output.success)
       \/ ~Truthy(s.ocr_corrected_text)
  THEN <<>> ELSE <<LlmCall(STRUCTURE_NODE, llm)>>

\* the port calls content_agent makes
ContentCalls(s, rag, llm) ==
  IF ~Truthy(s.ocr_corrected_text) THEN <<>>
  ELSE LET s2 == [s EXCEPT !.related_notes = <<>>, !.rag_context = PyNone,
                           !.cross_references = PyList(<<>>)]
           use == s.should_use_rag /\ s.course_id # NoCourse
       IN (IF ~use THEN <<>>
           ELSE IF ~rag.ok
           THEN <<Call("embedding", CONTENT_NODE, "raised")>>
           ELSE IF ~IsUuid(s.course_id)
           THEN <<Call("embedding", CONTENT_NODE, "ok")>>
           ELSE <<Call("embedding", CONTENT_NODE, "ok"),
                  Call("search", CONTENT_NODE,
                       IF rag.db_ok THEN "ok" ELSE "error")>>)
          \o (IF ContentNeedsLlm(ContentRetrieve(s2, rag))
              THEN <<LlmCall(CONTENT_NODE, llm)>> ELSE <<>>)

\* the port calls qa_agent makes
QaCalls(s, llm) ==
  LET content == PyOr(s.enhanced_content, s.ocr_corrected_text)
  IN IF ~s.should_generate_qa \/ ~Truthy(content) \/ content.t = "num"
     THEN <<>> ELSE <<LlmCall(QA_NODE, llm)>>

\* the port calls integration_agent makes
IntegrationCalls(s, llm) ==
  IF PromptRaises(s) THEN <<>>
  ELSE <<Call("completion", INTEGRATION_NODE,
              IF llm.ok THEN "wellformed" ELSE "raised")>>

(***************************************************************************)
(* Routers and graph                                                       *)
(***************************************************************************)
\* Faulty variant: the workflow continues although OCR failed
should_continue_after_ocr_Always(s) == [next |-> STRUCTURE_NODE, state |-> s]

\* [next, state]: the node the conditional edge selects and the state after
\* the router's own assignment
should_continue_after_ocr(s) ==
  IF s.ocr_agent_output.present /\ s.ocr_agent_output.success
  THEN [next |-> STRUCTURE_NODE, state |-> s]
  ELSE [next |-> END, state |-> [s EXCEPT !.status = FAILED]]

\* Faulty variant: the QA agent is entered although QA generation is disabled
should_continue_after_content_Always(s) == QA_NODE

\* Faulty variant: the QA agent is skipped although QA generation is enabled
should_continue_after_content_Never(s) == INTEGRATION_NODE

should_continue_after_content(s) ==
  IF s.should_generate_qa THEN QA_NODE ELSE INTEGRATION_NODE

\* Faulty variant: the QA agent's edge leads back to the content agent
Edge_Loop(node, s) ==
  CASE node = OCR_NODE -> should_continue_after_ocr(s).next
    [] node = STRUCTURE_NODE -> CONTENT_NODE
    [] node = CONTENT_NODE -> should_continue_after_content(s)
    [] node = QA_NODE -> CONTENT_NODE
    [] OTHER -> END

\* Faulty variant: the integration agent is wired before the QA agent
Edge_Swapped(node, s) ==
  CASE node = OCR_NODE -> should_continue_after_ocr(s).next
    [] node = STRUCTURE_NODE -> CONTENT_NODE
    [] node = CONTENT_NODE -> INTEGRATION_NODE
    [] node = INTEGRATION_NODE -> should_continue_after_content(s)
    [] OTHER -> END

\* Faulty variant: a failed structure analysis ends the workflow
Edge_StopOnStructureFailure(node, s) ==
  CASE node = OCR_NODE -> should_continue_after_ocr(s).next
    [] node = STRUCTURE_NODE ->
         IF s.structure_agent_output.success THEN CONTENT_NODE ELSE END
    [] node = CONTENT_NODE -> should_continue_after_content(s)
    [] node = QA_NODE -> INTEGRATION_NODE
    [] OTHER -> END

\* The edges of create_note_processing_graph: the node that follows node
\* when the state after node is s
Edge(node, s) ==
  CASE node = OCR_NODE -> should_continue_after_ocr(s).next
    [] node = STRUCTURE_NODE -> CONTENT_NODE
    [] node = CONTENT_NODE -> should_continue_after_content(s)
    [] node = QA_NODE -> INTEGRATION_NODE
    [] OTHER -> END

\* the last call of the vector store and what it returned
NoSearch ==
  [op |-> "none", db_ok |-> TRUE, query_embedding |-> <<>>,
   course_id |-> NoCourse, document_id |-> NoId, top_k |-> 0,
   exclude_document_id |-> NoId, similarity_threshold |-> 0,
   result |-> <<>>]

SearchCall(db_ok, query_embedding, course_id, top_k, exclude_document_id, similarity_threshold, result) ==
  [op |-> "find_similar_documents", db_ok |-> db_ok,
   query_embedding |-> query_embedding, course_id |-> course_id,
   document_id |-> NoId, top_k |-> top_k,
   exclude_document_id |-> exclude_document_id,
   similarity_threshold |-> similarity_threshold, result |-> result]

RelatedCall(db_ok, document_id, top_k, result) ==
  [op |-> "find_related_notes", db_ok |-> db_ok, query_embedding |-> <<>>,
   course_id |-> NoCourse, document_id |-> document_id, top_k |-> top_k,
   exclude_document_id |-> document_id,
   similarity_threshold |-> RelatedThreshold, result |-> result]

\* the module-level singletons that exist after content_agent has run on
\* state s: get_embedding_service() and get_vector_store() create theirs on
\* first use
\* Faulty variant: the similarity search commits the new note to the store
StoreAfter_Persist(call, docs) ==
  IF call.port = "search" /\ call.outcome = "ok"
  THEN docs \cup {Document(9, ValidCourse, "active", Q1)}
  ELSE docs

\* the document store after a port call of a stage returned: the only
\* session of the pipeline (content_agent.py:186) is used for the SELECT of
\* find_similar_documents and closed, with no add, delete, attribute write,
\* flush or commit; the other ports do not reach the database
StoreAfter(call, docs) == docs

\* the document store after the port calls of one stage
RECURSIVE StoreAfterStage(_, _)
StoreAfterStage(made, docs) ==
  IF Len(made) = 0 THEN docs
  ELSE StoreAfterStage(Tail(made), StoreAfter(made[1], docs))

ContentServices(s, rag, created) ==
  IF /\ Truthy(s.ocr_corrected_text)
     /\ s.should_use_rag /\ s.course_id # NoCourse
     /\ rag.ok
  THEN created \cup {"embedding_service", "vector_store"}
  ELSE created

\* the call of find_similar_documents content_agent makes on state s, if any
ContentSearch(s, rag, last) ==
  IF /\ Truthy(s.ocr_corrected_text)
     /\ s.should_use_rag /\ s.course_id # NoCourse
     /\ rag.ok /\ IsUuid(s.course_id)
  THEN SearchCall(rag.db_ok, rag.embedding, s.course_id, RagTopK, NoId,
                  RagThreshold, rag.docs)
  ELSE last

Init ==
  /\ \E image_bytes \in Images, course_id \in Courses,
        generate_qa \in BOOLEAN :
       state = create_initial_state(image_bytes, course_id, Unset, Unset,
                                    Unset, generate_qa)
  /\ pc = OCR_NODE
  /\ executed = <<>>
  /\ calls = <<>>
  /\ documents = PipelineStore
  /\ search = NoSearch
  /\ services = {}
  /\ runs = <<>>

OcrStep ==
  /\ pc = OCR_NODE
  /\ \E ocr \in OcrOutcomes, llm \in {LlmRaise} \cup LlmOk(OcrResponses),
        t \in ElapsedTimes :
       LET after == ocr_agent(state, ocr, llm, t)
       IN /\ state' = should_continue_after_ocr(after).state
          /\ pc' = Edge(OCR_NODE, after)
          /\ calls' = calls \o OcrCalls(state, ocr, llm)
  /\ executed' = Append(executed, OCR_NODE)
  /\ UNCHANGED <<documents, search, services, runs>>

StructureStep ==
  /\ pc = STRUCTURE_NODE
  /\ \E llm \in {LlmRaise} \cup LlmOk(StructResponses), t \in ElapsedTimes :
       /\ state' = structure_agent(state, llm, t)
       /\ calls' = calls \o StructCalls(state, llm)
  /\ pc' = Edge(STRUCTURE_NODE, state')
  /\ executed' = Append(executed, STRUCTURE_NODE)
  /\ UNCHANGED <<documents, search, services, runs>>

ContentStep ==
  /\ pc = CONTENT_NODE
  /\ \E rag \in RagOutcomes(state.course_id, documents),
        llm \in {LlmRaise} \cup LlmOk(ContentResponses),
        t \in ElapsedTimes :
       /\ state' = content_agent(state, rag, llm, t)
       /\ calls' = calls \o ContentCalls(state, rag, llm)
       /\ search' = ContentSearch(state, rag, search)
       /\ services' = ContentServices(state, rag, services)
       /\ documents' = StoreAfterStage(ContentCalls(state, rag, llm), documents)
  /\ pc' = Edge(CONTENT_NODE, state')
  /\ executed' = Append(executed, CONTENT_NODE)
  /\ UNCHANGED runs

QaStep ==
  /\ pc = QA_NODE
  /\ \E llm \in {LlmRaise} \cup LlmOk(QaResponses), t \in ElapsedTimes :
       /\ state' = qa_agent(state, llm, t)
       /\ calls' = calls \o QaCalls(state, llm)
  /\ pc' = Edge(QA_NODE, state')
  /\ executed' = Append(executed, QA_NODE)
  /\ UNCHANGED <<documents, search, services, runs>>

IntegrationStep ==
  /\ pc = INTEGRATION_NODE
  /\ \E llm \in IntegrationOutcomes, t \in ElapsedTimes :
       /\ state' = integration_agent(state, llm, t)
       /\ calls' = calls \o IntegrationCalls(state, llm)
  /\ pc' = Edge(INTEGRATION_NODE, state')
  /\ executed' = Append(executed, INTEGRATION_NODE)
  /\ UNCHANGED <<documents, search, services, runs>>

Next ==
  \/ OcrStep
  \/ StructureStep
  \/ ContentStep
  \/ QaStep
  \/ IntegrationStep

Spec == Init /\ [][Next]_vars

FairSpec == Spec /\ WF_vars(Next)

(***************************************************************************)
(* The vector store on its own: one call of find_similar_documents or of   *)
(* find_related_notes on a document store drawn from SearchStores           *)
(***************************************************************************)
\* (course_id, status, embedding) of the documents of the stores
DocKinds ==
  {<<ValidCourse, "active", E90>>, <<ValidCourse, "active", E60>>,
   <<ValidCourse, "active", E30>>, <<OtherCourse, "active", E100>>,
   <<ValidCourse, "trash", E100>>, <<ValidCourse, "active", <<>> >>}

SearchStores ==
  {PipelineStore}
    \cup UNION {{{Document(i, f[i][1], f[i][2], f[i][3]) : i \in 1..n} :
                   f \in [1..n -> DocKinds]} : n \in {0, MaxDocs}}

TopKs == 1..3
Thresholds == {0, 40}

SearchInit ==
  /\ documents \in SearchStores
  /\ search = NoSearch
  /\ services = {"vector_store"}
  /\ runs = <<>>
  /\ state = create_initial_state(<<>>, NoCourse, Unset, Unset, Unset, FALSE)
  /\ pc = END
  /\ executed = <<>>
  /\ calls = <<>>

FindSimilarDocuments ==
  /\ search.op = "none"
  /\ \E db_ok \in BOOLEAN, q \in Queries,
        course_id \in {ValidCourse, OtherCourse}, top_k \in TopKs,
        exclude \in {NoId} \cup {d.id : d \in documents},
        threshold \in Thresholds :
       \E result \in find_similar_documents(
                        [ok |-> db_ok, documents |-> documents], q,
                        course_id, top_k, exclude, threshold) :
          search' = SearchCall(db_ok, q, course_id, top_k, exclude,
                               threshold, result)
  /\ UNCHANGED <<state, pc, executed, calls, documents, services, runs>>

FindRelatedNotes ==
  /\ search.op = "none"
  /\ \E db_ok \in BOOLEAN, document_id \in 1..(MaxDocs + 1),
        top_k \in TopKs :
       \E result \in find_related_notes(
                        [ok |-> db_ok, documents |-> documents],
                        document_id, top_k) :
          search' = RelatedCall(db_ok, document_id, top_k, result)
  /\ UNCHANGED <<state, pc, executed, calls, documents, services, runs>>

SearchNext == FindSimilarDocuments \/ FindRelatedNotes

SearchSpec == SearchInit /\ [][SearchNext]_vars

(***************************************************************************)
(* Concurrent runs: process_note_with_agents called MaxRuns times at once, *)
(* each call with its own NoteProcessingState.  A run is suspended at each *)
(* call of a port (OCR, embedding, store query, completion) and the runs   *)
(* interleave there; the document store and the singletons are shared.     *)
(* runs[r] is [input, state, pc, trace, pending]: input is the arguments   *)
(* of the call, trace lists the stages run r has finished with the         *)
(* outcomes its port calls had, pending.left is the number of port calls   *)
(* of the current stage that have not returned yet.                        *)
(***************************************************************************)
NoPending == [left |-> 0, o |-> <<>>]

\* the outcomes of the port calls of one stage
Outcome(ocr, llm, rag, t) == [ocr |-> ocr, llm |-> llm, rag |-> rag, t |-> t]

NoOcr == [ok |-> FALSE, text |-> <<>>, confidence |-> 0]
NoRag == [ok |-> FALSE, embedding |-> <<>>, db_ok |-> TRUE, docs |-> <<>>]

\* (course_id, generate_qa) of the concurrent runs
RunInputs == {<<ValidCourse, FALSE>>, <<NoCourse, FALSE>>}

\* the outcomes the ports can have for a stage of a concurrent run: a
\* failing embedding call is the model load of EmbeddingService() failing,
\* which happens only while the singleton does not exist
RunOutcomes(node, s, created) ==
  CASE node = OCR_NODE ->
         {Outcome(NoOcr, LlmRaise, NoRag, t) : t \in ElapsedTimes}
           \cup {Outcome([ok |-> TRUE, text |-> <<"**key**", "$x$">>,
                          confidence |-> 95], LlmRaise, NoRag, t) :
                   t \in ElapsedTimes}
    [] node = CONTENT_NODE ->
         {Outcome(NoOcr,
                  [ok |-> TRUE,
                   resp |-> ContentMap(PyStr(<<"e.">>),
                                       PyList(<<RefItem>>))],
                  rag, t) :
            rag \in {x \in RagOutcomes(s.course_id, documents) :
                       /\ x.embedding # Q4 /\ x.db_ok
                       /\ x.ok \/ "embedding_service" \notin created
                       /\ (s.course_id = NoCourse) => (x = NoRag)},
            t \in ElapsedTimes}
    [] node = INTEGRATION_NODE ->
         {Outcome(NoOcr, llm, NoRag, t) :
            llm \in IntegrationOutcomes, t \in ElapsedTimes}
    [] OTHER -> {Outcome(NoOcr, LlmRaise, NoRag, t) : t \in ElapsedTimes}

\* the state a stage leaves, router included
StageApply(node, s, o) ==
  CASE node = OCR_NODE ->
         should_continue_after_ocr(ocr_agent(s, o.ocr, o.llm, o.t)).state
    [] node = STRUCTURE_NODE -> structure_agent(s, o.llm, o.t)
    [] node = CONTENT_NODE -> content_agent(s, o.rag, o.llm, o.t)
    [] node = QA_NODE -> qa_agent(s, o.llm, o.t)
    [] OTHER -> integration_agent(s, o.llm, o.t)

\* the node the graph goes to after the stage
StageNext(node, s, o) ==
  IF node = OCR_NODE THEN Edge(OCR_NODE, ocr_agent(s, o.ocr, o.llm, o.t))
  ELSE Edge(node, StageApply(node, s, o))

\* the port calls the stage makes
StageCalls(node, s, o) ==
  CASE node = OCR_NODE -> OcrCalls(s, o.ocr, o.llm)
    [] node = STRUCTURE_NODE -> StructCalls(s, o.llm)
    [] node = CONTENT_NODE -> ContentCalls(s, o.rag, o.llm)
    [] node = QA_NODE -> QaCalls(s, o.llm)
    [] OTHER -> IntegrationCalls(s, o.llm)

\* Faulty variant: the runs work on one module-level state, that of run 1
RunState_Shared(rs, r) == rs[1].state

\* the PipelineState the coroutine of run r works on: the initial_state of
\* its own call of process_note_with_agents
RunState(rs, r) == rs[r].state

NewRun(input) ==
  [input |-> input,
   state |-> create_initial_state(<<"jpeg">>, input[1], Unset, Unset, Unset,
                                  input[2]),
   pc |-> OCR_NODE, trace |-> <<>>, pending |-> NoPending]

\* the run with the stage of its pc finished on outcome o
Finished(rs, r, o) ==
  LET node == rs[r].pc
      s == RunState(rs, r)
  IN [input |-> rs[r].input,
      state |-> StageApply(node, s, o),
      pc |-> StageNext(node, s, o),
      trace |-> Append(rs[r].trace, [node |-> node, o |-> o]),
      pending |-> NoPending]

\* the singletons once a port call is under way: get_embedding_service()
\* has loaded the model if the embedding call is to succeed
AfterIssue(call, created) ==
  IF call.port = "embedding" /\ call.outcome = "ok"
  THEN created \cup {"embedding_service"}
  ELSE created

\* the singletons once a port call has returned and the run has gone on:
\* get_vector_store() follows create_embedding
AfterReturn(call, created) ==
  IF call.port = "embedding" /\ call.outcome = "ok"
  THEN created \cup {"vector_store"}
  ELSE created

ConcurrentInit ==
  /\ runs \in [1..MaxRuns -> {NewRun(input) : input \in RunInputs}]
  /\ services = {}
  /\ documents = PipelineStore
  /\ search = NoSearch
  /\ state = create_initial_state(<<>>, NoCourse, Unset, Unset, Unset, FALSE)
  /\ pc = END
  /\ executed = <<>>
  /\ calls = <<>>

\* a run enters the stage of its pc and runs up to its first port call, or
\* to the end of the stage if the stage calls no port
RunBegin ==
  /\ \E r \in 1..MaxRuns :
       /\ runs[r].pc # END
       /\ runs[r].pending.left = 0
       /\ \E o \in RunOutcomes(runs[r].pc, RunState(runs, r), services) :
            LET made == StageCalls(runs[r].pc, RunState(runs, r), o)
            IN IF Len(made) = 0
               THEN /\ runs' = [runs EXCEPT ![r] = Finished(runs, r, o)]
                    /\ services' = services
               ELSE /\ runs' = [runs EXCEPT ![r].pending =
                                   [left |-> Len(made), o |-> o]]
                    /\ services' = AfterIssue(made[1], services)
  /\ UNCHANGED <<state, pc, executed, calls, documents, search>>

\* a port call of a run returns and the run goes on to its next port call
RunResume ==
  /\ \E r \in 1..MaxRuns :
       /\ runs[r].pending.left > 1
       /\ LET o == runs[r].pending.o
              made == StageCalls(runs[r].pc, RunState(runs, r), o)
          IN /\ runs' = [runs EXCEPT ![r].pending.left = @ - 1]
             /\ services' =
                  AfterIssue(
                    made[Len(made) - runs[r].pending.left + 2],
                    AfterReturn(
                      made[Len(made) - runs[r].pending.left + 1],
                      services))
             /\ documents' =
                  StoreAfter(made[Len(made) - runs[r].pending.left + 1],
                             documents)
  /\ UNCHANGED <<state, pc, executed, calls, search>>

\* the last port call of the stage returns and the run finishes the stage
RunComplete ==
  /\ \E r \in 1..MaxRuns :
       /\ runs[r].pending.left = 1
       /\ LET o == runs[r].pending.o
              made == StageCalls(runs[r].pc, RunState(runs, r), o)
          IN /\ runs' = [runs EXCEPT ![r] = Finished(runs, r, o)]
             /\ services' = AfterReturn(made[Len(made)], services)
             /\ documents' = StoreAfter(made[Len(made)], documents)
  /\ UNCHANGED <<state, pc, executed, calls, search>>

ConcurrentNext == RunBegin \/ RunResume \/ RunComplete

ConcurrentSpec == ConcurrentInit /\ [][ConcurrentNext]_vars

(***************************************************************************)
(* ExtractionSpec: one call of ocr_agent by itself, as the test script     *)
(* makes it, on OCR texts built from lines of every pattern class.         *)
(***************************************************************************)
DetectorLines == {"a.", "$x$", "def f", "|a|b|"}

\* the texts of 1..MaxLines lines
DetectorTexts == UNION {[1..n -> DetectorLines] : n \in 1..MaxLines}

ExtractionInit ==
  /\ state = create_initial_state(<<"jpeg">>, NoCourse, Unset, Unset, Unset,
                                  FALSE)
  /\ pc = OCR_NODE
  /\ executed = <<>>
  /\ calls = <<>>
  /\ documents = PipelineStore
  /\ search = NoSearch
  /\ services = {}
  /\ runs = <<>>

\* state = await ocr_agent(state)
ExtractionStep ==
  /\ pc = OCR_NODE
  /\ \E text \in DetectorTexts, llm \in {LlmRaise} \cup LlmOk(OcrResponses),
        t \in ElapsedTimes :
       LET ocr == [ok |-> TRUE, text |-> text, confidence |-> 95]
       IN /\ state' = ocr_agent(state, ocr, llm, t)
          /\ calls' = calls \o OcrCalls(state, ocr, llm)
  /\ pc' = END
  /\ executed' = Append(executed, OCR_NODE)
  /\ UNCHANGED <<documents, search, services, runs>>

ExtractionSpec == ExtractionInit /\ [][ExtractionStep]_vars

(***************************************************************************)
(* StructuringSpec: structure_agent called by itself, as the test script   *)
(* makes it, up to MaxCalls times on the state ocr_agent returned, whether *)
(* Extraction succeeded or not.                                            *)
(***************************************************************************)
StructureLines == {"# h", "- i", "1 x", "a.", "a", "**key**"}

\* the texts of 1..MaxLines lines, and the text of one blank line
StructureTexts ==
  UNION {[1..n -> StructureLines] : n \in 1..MaxLines} \cup {<<" ">>}

\* the completion outcomes of the calls: raising, not a mapping twice over,
\* and a well-formed mapping
StructuringOutcomes ==
  {LlmRaise} \cup LlmOk(Unparsable)
    \cup LlmOk({StructMap(PyStr(<<"lecture">>), PyList(<<BlockItem>>),
                          PyList(<<HeadingItem>>), PyList(<<ConceptItem>>))})

StructuringInit ==
  /\ \E text \in StructureTexts :
       LET fresh == create_initial_state(<<"jpeg">>, NoCourse, Unset, Unset,
                                         Unset, FALSE)
           ocr == [ok |-> TRUE, text |-> text, confidence |-> 95]
       IN /\ state = ocr_agent(fresh, ocr, LlmRaise, 1)
          /\ calls = OcrCalls(fresh, ocr, LlmRaise)
  /\ pc = STRUCTURE_NODE
  /\ executed = <<OCR_NODE>>
  /\ documents = PipelineStore
  /\ search = NoSearch
  /\ services = {}
  /\ runs = <<>>

\* state = await structure_agent(state)
StructuringCall ==
  /\ pc = STRUCTURE_NODE
  /\ \E llm \in StructuringOutcomes, t \in ElapsedTimes :
       /\ state' = structure_agent(state, llm, t)
       /\ calls' = calls \o StructCalls(state, llm)
  /\ executed' = Append(executed, STRUCTURE_NODE)
  /\ pc' = IF Len(executed) >= MaxCalls THEN END ELSE STRUCTURE_NODE
  /\ UNCHANGED <<documents, search, services, runs>>

StructuringSpec == StructuringInit /\ [][StructuringCall]_vars

(***************************************************************************)
(* Properties                                                              *)
(***************************************************************************)
Terminal == pc = END

Ran(node) == \E i \in 1..Len(executed) : executed[i] = node

TimesRan(node) == Cardinality({i \in 1..Len(executed) : executed[i] = node})

Rank(node) ==
  CASE node = OCR_NODE -> 1
    [] node = STRUCTURE_NODE -> 2
    [] node = CONTENT_NODE -> 3
    [] node = QA_NODE -> 4
    [] node = INTEGRATION_NODE -> 5
    [] OTHER -> 6

ExtractionFailed ==
  state.ocr_agent_output.present /\ ~state.ocr_agent_output.success

ExtractionSucceeded ==
  state.ocr_agent_output.present /\ state.ocr_agent_output.success

CompletionCalls == {i \in 1..Len(calls) : calls[i].port = "completion"}

\* the OCR call returned non-blank text
OcrReturnedText ==
  \E i \in 1..Len(calls) : calls[i].port = "ocr" /\ calls[i].outcome = "ok"

AssessmentListsEmpty ==
  /\ state.qa_items = <<>>
  /\ state.knowledge_cards = <<>>
  /\ state.key_points = PyList(<<>>)

\* C1: whenever Extraction has recorded a failed StageResult the run is at
\* Terminal with status failed, only Extraction has executed, and the
\* StageResults of Structuring, Enrichment, Assessment and Assembly are
\* absent.
C1_ExtractionFailureEndsRun ==
  ExtractionFailed =>
    /\ Terminal
    /\ state.status = FAILED
    /\ executed = <<OCR_NODE>>
    /\ ~state.structure_agent_output.present
    /\ ~state.content_agent_output.present
    /\ ~state.qa_agent_output.present
    /\ ~state.integration_agent_output.present

C1_Witness ==
  Terminal /\ ExtractionFailed /\ Len(state.errors) = 1
    /\ Len(state.ocr_raw_text) > 0

\* C2: at Terminal the status is completed or failed, never pending or
\* processing.
C2_TerminalStatus == Terminal => state.status \in {COMPLETED, FAILED}

C2_Witness ==
  Terminal /\ state.status = COMPLETED /\ Len(state.errors) > 0

\* the completion call failed in every stage that made one
EveryCompletionRaised ==
  \A i \in CompletionCalls : calls[i].outcome = "raised"

C3_Scenario == Terminal /\ OcrReturnedText /\ EveryCompletionRaised

\* C3 as stated: with every completion call failing the run ends completed
\* and the error list has one entry per failed completion call.
C3_Original ==
  C3_Scenario =>
    /\ state.status = COMPLETED
    /\ Len(state.errors) = Cardinality(CompletionCalls)

\* C3 (amended): when the OCR call returns non-blank text and every
\* completion call fails, Extraction, Structuring and Enrichment succeed on
\* their rule-based fallbacks without recording an error, Assessment (when
\* enabled) and Assembly record a failed StageResult and one error each, the
\* status at Terminal is failed, and final_note is the fallback text.
C3_AllCompletionsFail ==
  C3_Scenario =>
    LET raw == state.ocr_raw_text
        rule == rule_based_structure_analysis(raw)
    IN /\ state.status = FAILED
       /\ state.ocr_agent_output.success
       /\ state.ocr_corrected_text = PyStr(raw)
       /\ state.special_contents = extract_special_content(raw)
       /\ state.structure_agent_output.success
       /\ state.text_blocks = rule.text_blocks
       /\ state.key_concepts = rule.key_concepts
       /\ state.document_type = PyStr(<<"notes">>)
       /\ state.content_agent_output.success
       /\ state.enhanced_content = PyStr(raw)
       /\ state.cross_references = PyList(<<>>)
       /\ state.qa_agent_output.present = state.should_generate_qa
       /\ ~state.qa_agent_output.success
       /\ AssessmentListsEmpty
       /\ state.integration_agent_output.present
       /\ ~state.integration_agent_output.success
       /\ state.final_note = PyStr(raw)
       /\ Len(state.errors) = IF state.should_generate_qa THEN 2 ELSE 1
       /\ Len(state.errors) < Cardinality(CompletionCalls)

C3_Witness ==
  C3_Scenario /\ state.should_generate_qa /\ Len(state.errors) = 2
    /\ Cardinality(CompletionCalls) = 5

\* C4 as stated: with generate_assessment false and Extraction succeeded the
\* terminal state holds a succeeded, "skipped" Assessment StageResult.
C4_Original ==
  (Terminal /\ ~state.should_generate_qa /\ ExtractionSucceeded) =>
    /\ AssessmentListsEmpty
    /\ state.qa_agent_output.present
    /\ state.qa_agent_output.success
    /\ state.qa_agent_output.skipped

\* C4 (amended): with generate_assessment false and Extraction succeeded the
\* terminal state has empty qa_items, knowledge_cards and key_points and
\* holds no Assessment StageResult, because qa_agent is not invoked; qa_agent
\* records a succeeded "skipped" StageResult with empty lists only when it
\* is called directly on such a state.
C4_AssessmentDisabled ==
  (Terminal /\ ~state.should_generate_qa /\ ExtractionSucceeded) =>
    /\ AssessmentListsEmpty
    /\ ~state.qa_agent_output.present
    /\ ~Ran(QA_NODE)
    /\ \A llm \in {LlmRaise} \cup LlmOk(QaResponses), t \in ElapsedTimes :
         LET direct == qa_agent(state, llm, t)
         IN /\ direct.qa_agent_output.success
            /\ direct.qa_agent_output.skipped
            /\ direct.qa_items = <<>>
            /\ direct.knowledge_cards = <<>>
            /\ direct.key_points = PyList(<<>>)
            /\ direct.errors = state.errors

C4_Witness ==
  Terminal /\ ~state.should_generate_qa /\ ExtractionSucceeded
    /\ state.status = COMPLETED

\* Assembly's own completion call succeeded
AssemblyCompletionSucceeded ==
  \E i \in CompletionCalls :
     calls[i].stage = INTEGRATION_NODE /\ calls[i].outcome # "raised"

\* C5: after Assembly the status is completed if and only if Assembly's own
\* completion call succeeded; when Assembly fails the status is failed, its
\* error is the last entry of the error list and final_note is
\* enhanced_content if non-empty, else ocr_corrected_text.
C5_Original ==
  state.integration_agent_output.present =>
    /\ state.status = COMPLETED <=> AssemblyCompletionSucceeded
    /\ ~state.integration_agent_output.success =>
         /\ state.status = FAILED
         /\ Len(state.errors) > 0
         /\ state.errors[Len(state.errors)]
              = state.integration_agent_output.error
         /\ state.final_note
              = PyOr(state.enhanced_content, state.ocr_corrected_text)

\* C6: no stage is followed by itself or by an earlier stage, and every run
\* reaches Terminal.
C6_Terminates ==
  /\ [][Rank(pc') > Rank(pc)]_vars
  /\ <>Terminal

C6_Witness == Terminal /\ Len(executed) = 5

\* C7: the stages execute at most once each, in the order Extraction,
\* Structuring, Enrichment, Assessment, Assembly, and current_agent is the
\* stage that executed last.
C7_SequentialOrder ==
  /\ \A i, j \in 1..Len(executed) :
        i < j => Rank(executed[i]) < Rank(executed[j])
  /\ \A i \in 1..Len(executed) : Rank(executed[i]) <= 5
  /\ state.current_agent
       = IF Len(executed) = 0 THEN "" ELSE executed[Len(executed)]

C7_Witness ==
  executed
    = <<OCR_NODE, STRUCTURE_NODE, CONTENT_NODE, QA_NODE, INTEGRATION_NODE>>

\* C8: once Enrichment has executed, Assessment is the next stage if and only
\* if should_generate_qa is true; when it is false Assembly follows
\* Enrichment directly and qa_agent is never invoked.
C8_AssessmentIffFlag ==
  Ran(CONTENT_NODE) =>
    /\ (pc = QA_NODE \/ Ran(QA_NODE)) <=> state.should_generate_qa
    /\ ~state.should_generate_qa =>
         /\ pc \in {INTEGRATION_NODE, END}
         /\ ~state.qa_agent_output.present
         /\ \A i \in 1..Len(calls) : calls[i].stage # QA_NODE
         /\ Terminal =>
              executed = <<OCR_NODE, STRUCTURE_NODE, CONTENT_NODE,
                           INTEGRATION_NODE>>

C8_Witness ==
  Terminal /\ ~state.should_generate_qa /\ Ran(INTEGRATION_NODE)

\* C9: when Extraction succeeded, at Terminal Structuring, Enrichment and
\* Assembly have each executed exactly once, whatever the success of
\* Structuring, Enrichment and Assessment, and Assembly was the last stage.
C9_AlwaysReachesAssembly ==
  (Terminal /\ ExtractionSucceeded) =>
    /\ TimesRan(STRUCTURE_NODE) = 1
    /\ TimesRan(CONTENT_NODE) = 1
    /\ TimesRan(INTEGRATION_NODE) = 1
    /\ executed[Len(executed)] = INTEGRATION_NODE
    /\ state.structure_agent_output.present
    /\ state.content_agent_output.present
    /\ state.integration_agent_output.present

C9_Witness ==
  /\ Terminal /\ ExtractionSucceeded
  /\ ~state.structure_agent_output.success
  /\ ~state.content_agent_output.success
  /\ state.qa_agent_output.present /\ ~state.qa_agent_output.success

\* C10: when the OCR call returns non-blank text and every completion call
\* succeeds with a response of the documented shape, a run with no course
\* and generate_qa = true ends completed, all five stages have a succeeded
\* StageResult and the error list is empty.
C10_Original ==
  (/\ Terminal
   /\ OcrReturnedText
   /\ \A i \in CompletionCalls : calls[i].outcome = "wellformed"
   /\ state.course_id = NoCourse
   /\ state.should_generate_qa) =>
    /\ state.status = COMPLETED
    /\ state.ocr_agent_output.success
    /\ state.structure_agent_output.success
    /\ state.content_agent_output.success
    /\ state.qa_agent_output.success
    /\ state.integration_agent_output.success
    /\ state.errors = <<>>

\* the completion call of stage returned something that is not a mapping
NotMapping(stage) ==
  \E i \in CompletionCalls :
     calls[i].stage = stage /\ calls[i].outcome = "notmapping"

\* the StageResult of node
OutputOf(node) ==
  CASE node = OCR_NODE -> state.ocr_agent_output
    [] node = STRUCTURE_NODE -> state.structure_agent_output
    [] node = CONTENT_NODE -> state.content_agent_output
    [] node = QA_NODE -> state.qa_agent_output
    [] OTHER -> state.integration_agent_output

\* C11: every stage that has executed has returned with its StageResult
\* recorded, whatever the ports did, and a completion response that is not a
\* single mapping puts the stage on its fallback path: Extraction keeps the
\* raw text and the rule-based special contents, Structuring the rule-based
\* analysis, Enrichment the corrected text, Assessment three empty lists.
C11_NoEscape ==
  /\ \A i \in 1..Len(executed) :
        /\ OutputOf(executed[i]).present
        /\ OutputOf(executed[i]).agent_name = executed[i]
  /\ NotMapping(OCR_NODE) =>
        /\ state.ocr_agent_output.success
        /\ state.ocr_corrected_text = PyStr(state.ocr_raw_text)
        /\ state.special_contents
             = extract_special_content(state.ocr_raw_text)
  /\ NotMapping(STRUCTURE_NODE) =>
        LET rule == rule_based_structure_analysis(state.ocr_corrected_text.v)
        IN /\ state.structure_agent_output.success
           /\ state.text_blocks = rule.text_blocks
           /\ state.heading_hierarchy = rule.heading_hierarchy
           /\ state.key_concepts = rule.key_concepts
           /\ state.document_type = rule.document_type
  /\ NotMapping(CONTENT_NODE) =>
        /\ state.content_agent_output.success
        /\ state.enhanced_content = state.ocr_corrected_text
        /\ state.cross_references = PyList(<<>>)
  /\ NotMapping(QA_NODE) => AssessmentListsEmpty

C11_Witness ==
  /\ Terminal
  /\ \A stage \in {OCR_NODE, STRUCTURE_NODE, CONTENT_NODE, QA_NODE} :
        NotMapping(stage)
  /\ state.integration_agent_output.present

\* C12: whenever Extraction has recorded a succeeded StageResult,
\* ocr_corrected_text is a non-empty text and special_contents is a list.
C12_Original ==
  ExtractionSucceeded =>
    /\ state.ocr_corrected_text.t = "str"
    /\ Len(state.ocr_corrected_text.v) > 0
    /\ state.special_contents \in Seq(Range(state.special_contents))

\* the outcome of the OCR port call of the run, "none" when none was made
OcrPortOutcome ==
  IF \E i \in 1..Len(calls) : calls[i].port = "ocr"
  THEN (CHOOSE c \in Range(calls) : c.port = "ocr").outcome
  ELSE "none"

\* C13: once Extraction has executed on empty image bytes, or on an OCR
\* result that is empty or whitespace-only, its StageResult is failed, the
\* status is failed, exactly one error is recorded and no completion call
\* was made; with empty image bytes the OCR port was not called either.
C13_ExtractionInputFailures ==
  /\ (Ran(OCR_NODE) /\ Len(state.image_bytes) = 0) =>
        /\ ExtractionFailed
        /\ state.status = FAILED
        /\ Len(state.errors) = 1
        /\ state.errors[1] = state.ocr_agent_output.error
        /\ calls = <<>>
  /\ OcrPortOutcome \in {"empty", "blank"} =>
        /\ ExtractionFailed
        /\ state.status = FAILED
        /\ Len(state.errors) = 1
        /\ state.errors[1] = state.ocr_agent_output.error
        /\ Len(calls) = 1
        /\ CompletionCalls = {}

C13_Witness ==
  Terminal /\ OcrPortOutcome = "blank" /\ Len(state.image_bytes) > 0
    /\ ExtractionFailed

\* Assessment's completion call raised or its response could not be parsed
AssessmentCallFailed ==
  \E i \in CompletionCalls :
     /\ calls[i].stage = QA_NODE
     /\ \/ calls[i].outcome \in {"raised", "notmapping"}
        \/ ~state.qa_agent_output.success

\* C14: once Assessment has executed with a completion call that raised or
\* a response that could not be parsed, qa_items, knowledge_cards and
\* key_points are empty, Assembly is the next stage, and at Terminal the
\* status is failed only if Assembly itself failed.
C14_AssessmentDegrades ==
  (Ran(QA_NODE) /\ AssessmentCallFailed) =>
    /\ AssessmentListsEmpty
    /\ pc = INTEGRATION_NODE \/ (Terminal /\ Ran(INTEGRATION_NODE))
    /\ Terminal =>
         (state.status = FAILED <=> ~state.integration_agent_output.success)

C14_Witness ==
  /\ Terminal
  /\ AssessmentCallFailed
  /\ ~state.qa_agent_output.success
  /\ state.status = COMPLETED

\* an exception was raised in the retrieval step of Enrichment: by
\* create_embedding, by UUID(course_id), or by the store query inside
\* find_similar_documents
RetrievalRaised ==
  \/ \E i \in 1..Len(calls) :
        \/ calls[i].port = "embedding" /\ calls[i].outcome = "raised"
        \/ calls[i].port = "search" /\ calls[i].outcome = "error"
  \/ /\ \E i \in 1..Len(calls) : calls[i].port = "embedding"
     /\ ~IsUuid(state.course_id)

ContentErrors ==
  {"Content Agent failed: " \o m :
     m \in {"No text available for content enhancement",
            "object has no len()"}}

\* C15: after an exception in the retrieval step related_notes is empty, the
\* retrieval context is unset, and Enrichment has performed its enhancement
\* step and recorded a succeeded StageResult without adding to the error
\* list.
C15_Original ==
  (Ran(CONTENT_NODE) /\ RetrievalRaised) =>
    /\ state.related_notes = <<>>
    /\ ~Truthy(state.rag_context)
    /\ state.content_agent_output.success
    /\ \A i \in 1..Len(state.errors) : state.errors[i] \notin ContentErrors

\* "use retrieval" is true and a course id is present
RetrievalEnabled == state.should_use_rag /\ state.course_id # NoCourse

\* C16: the store is searched only when should_use_rag is true and a course
\* id is present, and then with the course of the run, top_k = 3, no
\* excluded document and similarity floor 0.4; otherwise neither the
\* embedding port nor the search is called; related_notes holds what the
\* search returned, so never more than 3 entries and none below 0.4.
C16_RetrievalGuard ==
  /\ search.op # "none" =>
        /\ RetrievalEnabled
        /\ search.op = "find_similar_documents"
        /\ search.course_id = state.course_id
        /\ search.top_k = 3
        /\ search.similarity_threshold = 40
        /\ search.exclude_document_id = NoId
  /\ ~RetrievalEnabled =>
        /\ \A i \in 1..Len(calls) :
              calls[i].port \notin {"embedding", "search"}
        /\ search.op = "none"
        /\ state.related_notes = <<>>
  /\ state.related_notes # <<>> =>
        /\ search.op # "none"
        /\ state.related_notes
             = [i \in 1..Len(search.result) |-> RelatedNote(search.result[i])]
  /\ Len(state.related_notes) <= 3
  /\ \A i \in 1..Len(state.related_notes) :
        state.related_notes[i].similarity >= 40

C16_Witness ==
  /\ Terminal
  /\ search.query_embedding = Q4
  /\ Len(state.related_notes) = 1
  /\ Cardinality(Eligible(documents, state.course_id, NoId)) > 3

\* C17: once Enrichment has executed, enhanced_content is set, and when the
\* stage failed it is the corrected text, or the raw OCR text when the
\* corrected text is missing or empty.
C17_Original ==
  Ran(CONTENT_NODE) =>
    /\ state.enhanced_content.t = "str"
    /\ ~state.content_agent_output.success =>
         state.enhanced_content
           = IF Truthy(state.ocr_corrected_text)
             THEN state.ocr_corrected_text
             ELSE PyStr(state.ocr_raw_text)

\* a call of find_similar_documents has returned from a store that answered
Searched == search.op = "find_similar_documents" /\ search.db_ok

\* the eligible rows of the last call
SearchEligible ==
  Eligible(documents, search.course_id, search.exclude_document_id)

SimOf(doc) == Similarity(doc, search.query_embedding)

ResultDocs == {search.result[i].doc : i \in 1..Len(search.result)}

\* C18: no returned document is of another course than the queried one, no
\* more than top_k documents are returned and none has a similarity below
\* similarity_threshold, whatever the store holds.
C18_ScopeLimitFloor ==
  search.op = "find_similar_documents" =>
    /\ Len(search.result) <= search.top_k
    /\ \A i \in 1..Len(search.result) :
          /\ search.result[i].doc \in documents
          /\ search.result[i].doc.course_id = search.course_id
          /\ search.result[i].similarity >= search.similarity_threshold
          /\ search.result[i].similarity = SimOf(search.result[i].doc)

C18_Witness ==
  /\ Searched
  /\ Len(search.result) = search.top_k
  /\ \E d \in documents :
        /\ d.course_id # search.course_id
        /\ d.status = "active" /\ d.embedding # <<>>
        /\ SimOf(d) > search.result[1].similarity
  /\ \E d \in SearchEligible :
        SimOf(d) < search.similarity_threshold

\* C19: a call with exclude_document_id never returns that document, and
\* returns what it returns from the store without that document, so that
\* with top_k or more other eligible documents and no floor it returns
\* top_k documents; find_related_notes never returns the source document.
C19_Exclusion ==
  /\ (Searched /\ search.exclude_document_id # NoId) =>
        LET others == {d \in documents : d.id # search.exclude_document_id}
        IN /\ \A i \in 1..Len(search.result) :
                 search.result[i].doc.id # search.exclude_document_id
           /\ search.result \in
                find_similar_documents(
                  [ok |-> TRUE, documents |-> others],
                  search.query_embedding, search.course_id, search.top_k,
                  NoId, search.similarity_threshold)
           /\ (/\ Cardinality(Eligible(others, search.course_id, NoId))
                    >= search.top_k
               /\ search.similarity_threshold = 0
               /\ \A d \in others : d.embedding # <<>> => SimOf(d) >= 0)
                => Len(search.result) = search.top_k
  /\ search.op = "find_related_notes" =>
        \A i \in 1..Len(search.result) :
           search.result[i].id # search.document_id

C19_Witness ==
  /\ Searched
  /\ search.exclude_document_id # NoId
  /\ Len(search.result) = search.top_k
  /\ \E x \in Eligible(documents, search.course_id, NoId) :
        /\ x.id = search.exclude_document_id
        /\ \A d \in Eligible(documents, search.course_id, NoId) :
              d # x => SimOf(x) > SimOf(d)

\* C20: the documents returned are in descending order of similarity, and
\* they are exactly the eligible documents (same course, active, with an
\* embedding, not excluded) that are among the top_k most similar eligible
\* ones and have a similarity of at least the floor; on the store with
\* similarities 0.9, 0.6, 0.5, 0.3, 0.1, floor 0.4 and top_k 3 they are the
\* documents with 0.9, 0.6 and 0.5.
C20_TopKAboveFloor ==
  Searched =>
    LET above == {d \in SearchEligible :
                    SimOf(d) >= search.similarity_threshold}
        Closer(d) == {x \in SearchEligible : SimOf(x) > SimOf(d)}
        AsClose(d) == {x \in SearchEligible \ {d} : SimOf(x) >= SimOf(d)}
    IN /\ \A i, j \in 1..Len(search.result) :
             i < j =>
               /\ search.result[i].similarity >= search.result[j].similarity
               /\ search.result[i].doc # search.result[j].doc
       /\ ResultDocs \subseteq above
       /\ \A d \in ResultDocs : Cardinality(Closer(d)) < search.top_k
       /\ \A d \in above :
             Cardinality(AsClose(d)) < search.top_k => d \in ResultDocs
       /\ Len(search.result) = Min(search.top_k, Cardinality(above))
       /\ (/\ documents = PipelineStore
           /\ search.query_embedding = Q1
           /\ search.course_id = ValidCourse
           /\ search.exclude_document_id = NoId
           /\ search.top_k = 3
           /\ search.similarity_threshold = 40) =>
            /\ [i \in 1..Len(search.result) |-> search.result[i].doc.id]
                 = <<1, 2, 3>>
            /\ [i \in 1..Len(search.result) |->
                  search.result[i].similarity] = <<90, 60, 50>>

C20_Witness ==
  /\ Searched
  /\ documents = PipelineStore
  /\ search.query_embedding = Q1
  /\ search.course_id = ValidCourse
  /\ search.exclude_document_id = NoId
  /\ search.top_k = 3
  /\ search.similarity_threshold = 40
  /\ Len(search.result) = 3

\* the other order of the two steps: keep the eligible rows at or above the
\* floor, order them by distance, then take the first top_k
FilterThenOrderLimit(docs, query_embedding, course_id, top_k, exclude_document_id, similarity_threshold) ==
  {AboveThreshold(Limit(results, top_k), query_embedding,
                  similarity_threshold) :
     results \in OrderByDistance(
                   {d \in Eligible(docs, course_id, exclude_document_id) :
                      Similarity(d, query_embedding)
                        >= similarity_threshold},
                   query_embedding)}

\* C21 as stated: for some document store, the one of the state or another
\* of SearchStores, and some call, find_similar_documents returns fewer
\* than top_k documents although an eligible document at or above the floor
\* is not among them, or returns something filter-then-order-limit does not.
C21_Original ==
  \E docs \in {documents} \cup SearchStores, q \in Queries,
     course_id \in {ValidCourse, OtherCourse}, top_k \in TopKs,
     threshold \in Thresholds :
    \E exclude \in {NoId} \cup {d.id : d \in docs} :
      LET found == find_similar_documents(
                     [ok |-> TRUE, documents |-> docs], q, course_id,
                     top_k, exclude, threshold)
      IN \/ found # FilterThenOrderLimit(docs, q, course_id, top_k,
                                         exclude, threshold)
         \/ \E result \in found :
               /\ Len(result) < top_k
               /\ \E d \in Eligible(docs, course_id, exclude) :
                     /\ Similarity(d, q) >= threshold
                     /\ \A i \in 1..Len(result) : result[i].doc # d

\* C21 (amended): the floor commutes with the limit, because the rows are
\* ordered by the same similarity the floor is applied to: what
\* find_similar_documents returned is a result of filter-then-order-limit,
\* and when it returned fewer than top_k documents every eligible document
\* at or above the floor is among them.
C21_FloorCommutesWithLimit ==
  Searched =>
    /\ search.result
         \in FilterThenOrderLimit(
               documents, search.query_embedding, search.course_id,
               search.top_k, search.exclude_document_id,
               search.similarity_threshold)
    /\ Len(search.result) < search.top_k =>
         \A d \in SearchEligible :
            SimOf(d) >= search.similarity_threshold => d \in ResultDocs

\* a call whose top_k window held a document below the floor, with further
\* eligible documents outside the window
C21_Witness ==
  /\ Searched
  /\ Len(search.result) < search.top_k
  /\ Len(search.result) > 0
  /\ Cardinality(SearchEligible) > search.top_k
  /\ \E d \in SearchEligible : SimOf(d) < search.similarity_threshold

IsPrefix(a, b) == Len(a) <= Len(b) /\ SubSeq(b, 1, Len(a)) = a

\* C22: every step of a run (a stage together with the router that follows
\* it) leaves the error list as it was or appends to it: the list before the
\* step is a prefix of the list after it, so no entry is ever removed,
\* reordered or replaced.
C22_ErrorsAppendOnly ==
  [][IsPrefix(state.errors, state'.errors)]_vars

\* a run in which a second error was appended behind a first one
C22_Witness ==
  /\ Len(state.errors) >= 2
  /\ state.errors[1] # state.errors[2]
  /\ Ran(STRUCTURE_NODE) /\ Ran(CONTENT_NODE)

\* the stages whose failure does not end the run
LaterStages == {STRUCTURE_NODE, CONTENT_NODE, QA_NODE, INTEGRATION_NODE}

StageFailed(node) == OutputOf(node).present /\ ~OutputOf(node).success

\* C23: a later stage (Structuring, Enrichment, Assessment, Assembly) has a
\* failed StageResult exactly when the error list holds an entry for its
\* failure, and that entry is the error message of the StageResult; every
\* failure adds one entry, so the list has as many entries as stages have
\* failed; and the run goes on to the next stage of the graph after a
\* failed stage as it does after a successful one.
C23_FailureRecorded ==
  /\ \A node \in LaterStages :
        /\ StageFailed(node) => OutputOf(node).error \in Range(state.errors)
        /\ \A i \in 1..Len(state.errors) :
              state.errors[i] = OutputOf(node).error => StageFailed(node)
  /\ Len(state.errors)
       = Cardinality({node \in LaterStages \cup {OCR_NODE} :
                        StageFailed(node)})
  /\ \A i, j \in 1..Len(state.errors) :
        i # j => state.errors[i] # state.errors[j]
  /\ Len(executed) > 0 =>
        LET last == executed[Len(executed)]
        IN /\ last = STRUCTURE_NODE => pc = CONTENT_NODE
           /\ last = CONTENT_NODE =>
                pc = IF state.should_generate_qa THEN QA_NODE
                     ELSE INTEGRATION_NODE
           /\ last = QA_NODE => pc = INTEGRATION_NODE
           /\ last = INTEGRATION_NODE => pc = END

\* a run in which all four later stages failed one after the other
C23_Witness ==
  /\ Terminal
  /\ \A node \in LaterStages : Ran(node) /\ StageFailed(node)
  /\ Len(state.errors) = 4

\* the fields of NoteProcessingState by section
InputFields ==
  {"image_bytes", "course_id", "course_name", "additional_context",
   "user_id", "should_use_rag", "should_generate_qa"}

ControlFields == {"status", "current_agent", "errors", "processing_times"}

\* the output fields of a stage
OutputFields(node) ==
  CASE node = OCR_NODE ->
         {"ocr_raw_text", "ocr_corrected_text", "ocr_confidence",
          "special_contents", "ocr_agent_output"}
    [] node = STRUCTURE_NODE ->
         {"text_blocks", "heading_hierarchy", "key_concepts",
          "document_type", "structure_agent_output"}
    [] node = CONTENT_NODE ->
         {"related_notes", "rag_context", "enhanced_content",
          "cross_references", "content_agent_output"}
    [] node = QA_NODE ->
         {"qa_items", "knowledge_cards", "key_points", "qa_agent_output"}
    [] OTHER -> {"final_note", "final_metadata", "integration_agent_output"}

\* the fields whose value the step changes
Changed == {f \in DOMAIN state : state'[f] # state[f]}

\* the stage the step runs
Stepping == executed'[Len(executed')]

\* C24 as stated: a step of a stage changes nothing but the designated output
\* fields of that stage, so that no field of the state is changed by two
\* stages.
C24_Original ==
  [][Changed \subseteq OutputFields(Stepping)]_vars

\* C24 (amended): a step of a stage changes no input field and no output
\* field of another stage; of the control fields it may change any, the
\* status only in the steps of Extraction (with its router) and Assembly.
C24_StageWritesItsOwnOutputs ==
  [][/\ Changed \subseteq OutputFields(Stepping) \cup ControlFields
     /\ Changed \cap InputFields = {}
     /\ "status" \in Changed => Stepping \in {OCR_NODE, INTEGRATION_NODE}
     /\ "current_agent" \in Changed]_vars

\* a run of all five stages, each of which has written its output fields and
\* the control fields
C24_Witness ==
  /\ Terminal
  /\ \A node \in LaterStages \cup {OCR_NODE} :
        /\ OutputOf(node).present
        /\ \E i \in 1..Len(state.processing_times) :
              state.processing_times[i][1] = node
  /\ state.current_agent = INTEGRATION_NODE
  /\ Truthy(state.final_note) /\ Truthy(state.enhanced_content)
  /\ Len(state.qa_items) > 0 /\ Len(state.key_concepts) > 0

\* arguments of create_initial_state
CourseArgs == Courses \cup {OtherCourse, ""}
CourseNames == {Unset, "Test Course"}
Contexts == {Unset, "Test context"}
UserIds == {Unset, "test-user-id"}

\* the collections of a state are empty and it holds no StageResult
FreshState(s) ==
  /\ s.status = PENDING
  /\ s.special_contents = <<>> /\ s.text_blocks = <<>>
  /\ s.heading_hierarchy = PyList(<<>>) /\ s.key_concepts = <<>>
  /\ s.related_notes = <<>> /\ s.cross_references = PyList(<<>>)
  /\ s.qa_items = <<>> /\ s.knowledge_cards = <<>>
  /\ s.key_points = PyList(<<>>)
  /\ s.final_metadata = [kind |-> "empty"]
  /\ s.errors = <<>> /\ s.processing_times = <<>>
  /\ ~s.ocr_agent_output.present /\ ~s.structure_agent_output.present
  /\ ~s.content_agent_output.present /\ ~s.qa_agent_output.present
  /\ ~s.integration_agent_output.present

\* C25: the state a run starts from is the result of create_initial_state,
\* and for all arguments create_initial_state returns a state with status
\* pending, should_use_rag true exactly when course_id is not None,
\* should_generate_qa equal to generate_qa, the input fields equal to the
\* arguments, empty collections and no StageResult.
C25_InitialState ==
  (pc = OCR_NODE /\ executed = <<>>) =>
    /\ FreshState(state)
    /\ state.should_use_rag <=> state.course_id # Unset
    /\ state.image_bytes \in Images /\ state.course_id \in Courses
    /\ \A image_bytes \in Images, course_id \in CourseArgs,
          course_name \in CourseNames, additional_context \in Contexts,
          user_id \in UserIds, generate_qa \in BOOLEAN :
         LET s == create_initial_state(image_bytes, course_id, course_name,
                                       additional_context, user_id,
                                       generate_qa)
         IN /\ FreshState(s)
            /\ s.should_use_rag <=> course_id # Unset
            /\ s.should_generate_qa = generate_qa
            /\ s.image_bytes = image_bytes
            /\ s.course_id = course_id
            /\ s.course_name = course_name
            /\ s.additional_context = additional_context
            /\ s.user_id = user_id

\* the start of a run with a course id and without assessment
C25_Witness ==
  /\ pc = OCR_NODE /\ executed = <<>>
  /\ state.course_id = InvalidCourse
  /\ state.should_use_rag
  /\ ~state.should_generate_qa
  /\ state.image_bytes # <<>>

\* the lines of text occur in note, in order and next to each other
ContainsText(note, text) ==
  /\ note.t = "str" /\ text.t = "str"
  /\ \E i \in 0..(Len(note.v) - Len(text.v)) :
        SubSeq(note.v, i + 1, i + Len(text.v)) = text.v

\* scenario 1: the OCR call returned non-blank text, no course id, no
\* assessment
C26_Scenario ==
  /\ Terminal
  /\ OcrReturnedText
  /\ state.course_id = NoCourse
  /\ ~state.should_generate_qa

\* C26 as stated: every run of scenario 1 ends completed with no related
\* documents, empty assessment lists and a final document that contains the
\* corrected text.
C26_Original ==
  C26_Scenario =>
    /\ state.status = COMPLETED
    /\ state.related_notes = <<>>
    /\ AssessmentListsEmpty
    /\ ContainsText(state.final_note, state.ocr_corrected_text)

\* C26 (amended): every run of scenario 1 ends with no related documents
\* and empty assessment lists; it ends completed exactly when the
\* completion call of Assembly succeeded, and the final document is then
\* the text that call returned with no assessment section behind it; when
\* Assembly failed the run ends failed and the final document is the
\* enhanced content, or the corrected text if that is empty.
C26_ScenarioOne ==
  C26_Scenario =>
    /\ state.related_notes = <<>>
    /\ AssessmentListsEmpty
    /\ state.status = COMPLETED <=> AssemblyCompletionSucceeded
    /\ state.status # COMPLETED => state.status = FAILED
    /\ state.status = COMPLETED =>
         \E llm \in IntegrationOutcomes :
            llm.ok /\ state.final_note = PyStr(llm.text)
    /\ (Ran(INTEGRATION_NODE) /\ state.status = FAILED) =>
         state.final_note
           = PyOr(state.enhanced_content, state.ocr_corrected_text)

\* a run of scenario 1 that ends completed with a final document that does
\* not contain the corrected text, after runs that ended failed with the
\* corrected text as the final document
C26_Witness ==
  /\ C26_Scenario
  /\ state.status = COMPLETED
  /\ Truthy(state.ocr_corrected_text)
  /\ state.errors = <<>>
  /\ ~ContainsText(state.final_note, state.ocr_corrected_text)

\* a run executed alone: the stages of trace applied one after the other,
\* from state s at node, each on the outcomes trace gives it
RECURSIVE Replay(_, _, _)
Replay(s, node, trace) ==
  IF Len(trace) = 0 THEN [state |-> s, pc |-> node]
  ELSE IF trace[1].node # node THEN [state |-> s, pc |-> "diverged"]
  ELSE Replay(StageApply(node, s, trace[1].o),
              StageNext(node, s, trace[1].o), Tail(trace))

\* run r executed alone on its arguments with the outcomes its port calls
\* have had so far
Alone(r) == Replay(NewRun(runs[r].input).state, OCR_NODE, runs[r].trace)

Outstanding(r) ==
  LET made == StageCalls(runs[r].pc, runs[r].state, runs[r].pending.o)
  IN made[Len(made) - runs[r].pending.left + 1]

CompletionFailed(stage) ==
  \E i \in CompletionCalls :
     calls[i].stage = stage /\ calls[i].outcome \in {"raised", "notmapping"}

\* the confidence of the class of a span, in hundredths
ClassConfidence(kind) ==
  CASE kind = "formula" -> 80 [] kind = "code" -> 70 [] kind = "table" -> 60
    [] OTHER -> 0

\* the line of the text a span starts at is one of its class
ClassMatch(kind, line) ==
  CASE kind = "formula" -> MathMatch(line) [] kind = "code" -> CodeMatch(line)
    [] kind = "table" -> TableMatch(line) [] OTHER -> FALSE

\* C29: when the completion call of Extraction raised or its response is not
\* a single mapping, Extraction succeeds, the corrected text is the raw OCR
\* text and the special contents are those of the rule-based detector on the
\* raw text; every span of the detector is of kind formula, code or table,
\* with confidence 0.8, 0.7 or 0.6, and is the match of its class at its
\* position; the detector gives a list of such spans for every text.
C29_ExtractionFallback ==
  CompletionFailed(OCR_NODE) =>
    /\ state.ocr_agent_output.success
    /\ state.ocr_corrected_text = PyStr(state.ocr_raw_text)
    /\ state.special_contents = extract_special_content(state.ocr_raw_text)
    /\ \A text \in {state.ocr_raw_text, <<>>, <<" ">>} :
          LET spans == extract_special_content(text)
          IN \A i \in 1..Len(spans) :
                /\ spans[i].content_type \in {"formula", "code", "table"}
                /\ spans[i].confidence = ClassConfidence(spans[i].content_type)
                /\ spans[i].position + 1 \in 1..Len(text)
                /\ spans[i].raw_text = text[spans[i].position + 1]
                /\ ClassMatch(spans[i].content_type, spans[i].raw_text)
    /\ \A kind \in {"formula", "code", "table"} :
          \A j \in 1..Len(state.ocr_raw_text) :
             ClassMatch(kind, state.ocr_raw_text[j]) =>
               \E i \in 1..Len(state.special_contents) :
                  /\ state.special_contents[i].content_type = kind
                  /\ state.special_contents[i].position = j - 1

\* Extraction fell back after its completion call raised, on a text with a
\* code span and a table
C29_Witness ==
  /\ Ran(OCR_NODE)
  /\ \E i \in CompletionCalls :
        calls[i].stage = OCR_NODE /\ calls[i].outcome = "raised"
  /\ state.ocr_corrected_text = PyStr(state.ocr_raw_text)
  /\ \E i, j \in 1..Len(state.special_contents) :
        /\ state.special_contents[i].content_type = "code"
        /\ state.special_contents[j].content_type = "table"

\* n flashcards with text on both sides, each front with a pipe and its own
\* number
TextCards(n) ==
  [i \in 1..n |-> [front |-> PyStr(<<"f", "|", ToString(i)>>),
                   back |-> PyStr(<<"|", "b">>)]]

\* every pipe of esc follows a backslash, and esc is orig with one character
\* more for each of its pipes
PipesEscaped(orig, esc) ==
  /\ Len(esc) = Len(orig) + Cardinality({k \in 1..Len(orig) : orig[k] = "|"})
  /\ \A k \in 1..Len(esc) : esc[k] = "|" => (k > 1 /\ esc[k - 1] = "\\")

\* the section of cards is rendered, with no table for no card and else one
\* row for each of the first ten cards, in their order, pipes escaped
TableOk(cards) ==
  LET section == format_knowledge_cards(cards)
      n == Min(Len(cards), 10)
  IN /\ ~section.raised
     /\ Len(cards) = 0 => Len(section.lines) = 0
     /\ Len(cards) > 0 =>
          /\ Len(section.lines) = 4 + n
          /\ \A i \in 1..n :
                /\ cards[i].front.t = "str" /\ cards[i].back.t = "str"
                /\ PipesEscaped(cards[i].front.v,
                                EscapePipes(cards[i].front.v))
                /\ PipesEscaped(cards[i].back.v, EscapePipes(cards[i].back.v))
                /\ section.lines[4 + i]
                     = "| " \o Flatten(EscapePipes(cards[i].front.v)) \o " | "
                         \o Flatten(EscapePipes(cards[i].back.v)) \o " |"

\* the table of every list of text cards, of up to eleven cards
TextCardsOk == \A n \in 0..(MaxCards + 1) : TableOk(TextCards(n))

\* C30: the flashcard table Assembly renders from the n flashcards of the
\* state has min(n, 10) data rows, one for each card in input order with
\* every pipe of its front and back escaped, and there is no table for
\* n = 0.
C30_Original ==
  /\ (pc = OCR_NODE /\ Len(executed) = 0) => TextCardsOk
  /\ pc = INTEGRATION_NODE => TableOk(state.knowledge_cards)

\* the same on the states whose flashcards all have text on both sides
TextCardTablesOk ==
  /\ (pc = OCR_NODE /\ Len(executed) = 0) => TextCardsOk
  /\ (/\ pc = INTEGRATION_NODE
      /\ \A i \in 1..Len(state.knowledge_cards) :
            /\ state.knowledge_cards[i].front.t = "str"
            /\ state.knowledge_cards[i].back.t = "str")
       => TableOk(state.knowledge_cards)

\* the last port call recorded in a history is the completion call of
\* Structuring, and it raised
StructuringForcedToFail(history) ==
  /\ Len(history) > 0
  /\ history[Len(history)].stage = STRUCTURE_NODE
  /\ history[Len(history)].outcome = "raised"

\* C31: a call of Structuring whose completion call raised leaves the
\* rule-based analysis of the corrected text in the state, with document
\* type 'notes', and when the call before it on the same text had also been
\* forced to fail, the block, heading and concept lists and the document
\* type are the same after both calls.
C31_FallbackDeterministic ==
  [][(Len(calls') = Len(calls) + 1 /\ StructuringForcedToFail(calls')) =>
       /\ state'.structure_agent_output.success
       /\ state'.document_type = PyStr(<<"notes">>)
       /\ state'.text_blocks
            = rule_based_structure_analysis(state.ocr_corrected_text.v)
                .text_blocks
       /\ StructuringForcedToFail(calls) =>
            /\ state'.text_blocks = state.text_blocks
            /\ state'.heading_hierarchy = state.heading_hierarchy
            /\ state'.key_concepts = state.key_concepts
            /\ state'.document_type = state.document_type]_vars

\* Structuring ran twice with its completion call raising, on a text with
\* a heading and an emphasised term
C31_Witness ==
  /\ TimesRan(STRUCTURE_NODE) = 2
  /\ StructuringForcedToFail(calls)
  /\ StructuringForcedToFail(SubSeq(calls, 1, Len(calls) - 1))
  /\ Len(state.text_blocks) > 1
  /\ Len(state.heading_hierarchy.v) > 0
  /\ Len(state.key_concepts) > 0
  /\ state.document_type = PyStr(<<"notes">>)

\* C32: a call of Structuring on a state whose Extraction result is failed
\* makes no port call and returns the state with nothing changed but the
\* current stage name and its own StageResult, which is failed: the blocks,
\* headings, concepts, document type, errors and processing times are as
\* they were.
C32_SkippedStructuring ==
  [][(/\ pc = STRUCTURE_NODE
      /\ state.ocr_agent_output.present
      /\ ~state.ocr_agent_output.success) =>
       /\ calls' = calls
       /\ state'.structure_agent_output.present
       /\ ~state'.structure_agent_output.success
       /\ state'.current_agent = STRUCTURE_NODE
       /\ \A f \in DOMAIN state :
             f \notin {"current_agent", "structure_agent_output"} =>
               state'[f] = state[f]]_vars

\* Structuring was called after Extraction had failed on a blank text
C32_Witness ==
  /\ Ran(STRUCTURE_NODE)
  /\ state.ocr_agent_output.present
  /\ ~state.ocr_agent_output.success
  /\ state.structure_agent_output.present
  /\ ~state.structure_agent_output.success
  /\ Len(state.errors) = 1
  /\ Len(state.text_blocks) = 0
  /\ state.document_type = PyStr(<<"notes">>)

\* the document types the completion is asked to choose from
DocumentTypes ==
  {<<"lecture">>, <<"notes">>, <<"textbook">>, <<"exercise">>, <<"summary">>,
   <<"other">>}

\* C33: after Structuring has executed, document_type is one of the six
\* values lecture, notes, textbook, exercise, summary and other, whatever
\* the completion answered.
C33_Original ==
  Ran(STRUCTURE_NODE) =>
    /\ state.document_type.t = "str"
    /\ state.document_type.v \in DocumentTypes

\* C34: after Structuring has executed, text_blocks, heading_hierarchy and
\* key_concepts are lists, possibly empty, and none of them is null, on the
\* completion path and on the fallback path.
C34_Original ==
  Ran(STRUCTURE_NODE) =>
    /\ state.text_blocks \in Seq(Range(state.text_blocks))
    /\ state.key_concepts \in Seq(Range(state.key_concepts))
    /\ state.heading_hierarchy.t = "list"

\* the four output fields of Structuring hold what create_initial_state
\* gave them
StructureFieldsInitial ==
  /\ Len(state.text_blocks) = 0
  /\ state.heading_hierarchy = PyList(<<>>)
  /\ Len(state.key_concepts) = 0
  /\ state.document_type = PyStr(<<"notes">>)

\* C39: Structuring writes its four output fields together or not at all:
\* when its StageResult is failed the four fields hold their initial
\* values, the empty lists and 'notes'.
C39_Original ==
  (state.structure_agent_output.present
     /\ ~state.structure_agent_output.success) => StructureFieldsInitial

\* the outcome of the completion call Enrichment made, "none" without call
EnhancementOutcome ==
  IF \E i \in CompletionCalls : calls[i].stage = CONTENT_NODE
  THEN calls[CHOOSE i \in CompletionCalls : calls[i].stage = CONTENT_NODE]
         .outcome
  ELSE "none"

\* C35: when Enrichment has a corrected text to work on, it calls the
\* completion port exactly if the retrieval context or the concept list is
\* non-empty; without call the enhanced content is the corrected text; and
\* when the call raised or its response is not a single mapping, the
\* enhanced content is the corrected text and cross_references is the empty
\* list.
C35_EnhancementGuard ==
  (Ran(CONTENT_NODE) /\ Truthy(state.ocr_corrected_text)) =>
    /\ EnhancementOutcome # "none"
         <=> (Truthy(state.rag_context) \/ Len(state.key_concepts) > 0)
    /\ EnhancementOutcome = "none" =>
         state.enhanced_content = state.ocr_corrected_text
    /\ EnhancementOutcome \in {"raised", "notmapping"} =>
         /\ state.enhanced_content = state.ocr_corrected_text
         /\ state.cross_references = PyList(<<>>)
         /\ state.content_agent_output.success

\* Enrichment had retrieved notes and concepts, its completion call
\* answered text that is no mapping, and it fell back
C35_Witness ==
  /\ Ran(CONTENT_NODE)
  /\ EnhancementOutcome = "notmapping"
  /\ Truthy(state.rag_context)
  /\ Len(state.key_concepts) > 0
  /\ state.enhanced_content = state.ocr_corrected_text
  /\ state.cross_references = PyList(<<>>)

\* the sum of the elapsed times in the StageResults of the stages of a
\* sequence
RECURSIVE ElapsedOf(_)
ElapsedOf(stages) ==
  IF Len(stages) = 0 THEN 0
  ELSE OutputOf(stages[1]).processing_time + ElapsedOf(Tail(stages))

\* C36: when Assembly succeeded, the stages the final metadata lists as run
\* are exactly the stages that executed in the run, its total elapsed time
\* is the sum of the elapsed times of all of them, and its error list is
\* the error list of the state.
C36_Original ==
  (state.integration_agent_output.present
     /\ state.integration_agent_output.success) =>
    /\ Range(state.final_metadata.agents_run) = Range(executed)
    /\ state.final_metadata.processing_time_total = ElapsedOf(executed)
    /\ state.final_metadata.errors = state.errors

\* the part of it that the metadata does give: the stages listed are those
\* whose elapsed time was recorded before Assembly built the metadata, the
\* total is the sum of those times, and the error list is that of the state
MetadataOfRecordedTimes ==
  (state.integration_agent_output.present
     /\ state.integration_agent_output.success) =>
    LET recorded == SelectSeq(state.processing_times,
                              LAMBDA e : e[1] # INTEGRATION_NODE)
    IN /\ state.final_metadata.agents_run
            = [i \in 1..Len(recorded) |-> recorded[i][1]]
       /\ INTEGRATION_NODE \notin Range(state.final_metadata.agents_run)
       /\ state.final_metadata.processing_time_total = SumTimes(recorded)
       /\ state.final_metadata.errors = state.errors

\* how far a status is: pending, processing, then completed or failed
StatusRank(status) ==
  CASE status = PENDING -> 0 [] status = PROCESSING -> 1 [] OTHER -> 2

\* C37: the status is pending exactly until Extraction has run; no step of
\* a run takes the status back; the step of Extraction takes it from
\* pending to processing, or to failed when Extraction fails; and once it
\* is completed or failed no stage or router step changes it, so that a run
\* never shows completed after failed.
C37_StatusForward ==
  /\ [](state.status = PENDING <=> Len(executed) = 0)
  /\ [][/\ StatusRank(state'.status) >= StatusRank(state.status)
        /\ state.status = PENDING =>
             state'.status = (IF state'.ocr_agent_output.success
                              THEN PROCESSING ELSE FAILED)
        /\ state.status \in {COMPLETED, FAILED} =>
             state'.status = state.status]_vars

\* a run ended completed although Structuring and Assessment had failed on
\* the way: their failures left the status at processing
C37_Witness ==
  /\ Terminal
  /\ state.status = COMPLETED
  /\ state.structure_agent_output.present
  /\ ~state.structure_agent_output.success
  /\ state.qa_agent_output.present
  /\ ~state.qa_agent_output.success

\* C38: when Assessment recorded a succeeded StageResult, the rendering of
\* its key points, review questions and flashcards by Assembly does not
\* fail, so that Assembly ends completed exactly when its own completion
\* call succeeded.
C38_Original ==
  (/\ state.qa_agent_output.present
   /\ state.qa_agent_output.success
   /\ state.integration_agent_output.present
   /\ ~PromptRaises(state)) =>
    /\ state.integration_agent_output.success <=> AssemblyCompletionSucceeded
    /\ state.status = COMPLETED <=> state.integration_agent_output.success
    /\ AssemblyCompletionSucceeded =>
         /\ ~format_qa_section(state.qa_items, state.key_points).raised
         /\ ~format_knowledge_cards(state.knowledge_cards).raised

====
